---- MODULE Spec2Model ----
(***************************************************************************)
(* Model of cargo-dirty's rebuild causality graph (src/src/rebuild_graph.rs *)
(* with the Display of src/src/rebuild_reason.rs that add_node uses as the  *)
(* reason key).  Strings are sequences of one-character strings so that     *)
(* split_whitespace, replace('-', "_"), split('/') and Display are computed *)
(* character by character as the code computes them.                        *)
(***************************************************************************)
EXTENDS Integers, Sequences, FiniteSets, TLC

\* ------------------------------------------------------------------ bounds
\* Largest number of nodes the chain specification (Spec) stores.
MaxNodes == 4

\* Largest number of nodes the deduplication specification (SpecDedup) stores.
MaxDedupNodes == 2

\* ----------------------------------------------------------- Option values
None == [tag |-> "None"]

Some(v) == [tag |-> "Some", val |-> v]

\* ------------------------------------------------------------ string tools
\* char::is_whitespace restricted to the characters the inputs use.
IsWhitespace(c) == c \in {" ", "\t"}

RECURSIVE Concat(_)
\* Concatenation of a sequence of strings (what write!/format! produce).
Concat(parts) ==
    IF parts = <<>> THEN <<>> ELSE Head(parts) \o Concat(Tail(parts))

RECURSIVE SkipWhitespace(_)
SkipWhitespace(s) ==
    IF s # <<>> /\ IsWhitespace(Head(s)) THEN SkipWhitespace(Tail(s)) ELSE s

RECURSIVE TakeToken(_)
TakeToken(s) ==
    IF s = <<>> \/ IsWhitespace(Head(s)) THEN <<>>
    ELSE <<Head(s)>> \o TakeToken(Tail(s))

RECURSIVE SplitOn(_, _)
\* str::split(sep): the pieces between separators, empty pieces kept.
SplitOn(s, sep) ==
    IF s = <<>> THEN << <<>> >>
    ELSE LET rest == SplitOn(Tail(s), sep) IN
         IF Head(s) = sep THEN << <<>> >> \o rest
         ELSE << <<Head(s)>> \o Head(rest) >> \o Tail(rest)

RECURSIVE JoinWith(_, _)
\* [T]::join(sep)
JoinWith(pieces, sep) ==
    IF pieces = <<>> THEN <<>>
    ELSE IF Len(pieces) = 1 THEN pieces[1]
    ELSE pieces[1] \o <<sep>> \o JoinWith(Tail(pieces), sep)

\* iter.rev().take(n).rev(): the last n elements, order kept.
LastN(seq, n) ==
    IF Len(seq) <= n THEN seq ELSE SubSeq(seq, Len(seq) - n + 1, Len(seq))

\* A package key that keeps the version suffix.
extract_package_name_keeps_version(package_id) == package_id

\* Extract just the package name from a package_id like "libz-sys v1.1.23":
\* split_whitespace().next().unwrap_or(package_id).
extract_package_name(package_id) ==
    LET tok == TakeToken(SkipWhitespace(package_id)) IN
    IF tok = <<>> THEN package_id ELSE tok

\* name.replace('-', "_")
normalize_crate_name(name) ==
    [i \in 1..Len(name) |-> IF name[i] = "-" THEN "_" ELSE name[i]]

\* ---------------------------------------------------------- RebuildReason
EnvVarChanged(name, old_value, new_value) ==
    [kind |-> "EnvVarChanged", name |-> name,
     old_value |-> old_value, new_value |-> new_value]

UnitDependencyInfoChanged(name, old_fingerprint, new_fingerprint) ==
    [kind |-> "UnitDependencyInfoChanged", name |-> name,
     old_fingerprint |-> old_fingerprint, new_fingerprint |-> new_fingerprint,
     context |-> None]

RustflagsChanged(old, new) == [kind |-> "RustflagsChanged", old |-> old, new |-> new]

FeaturesChanged(old, new) == [kind |-> "FeaturesChanged", old |-> old, new |-> new]

ProfileConfigurationChanged == [kind |-> "ProfileConfigurationChanged"]

TargetConfigurationChanged == [kind |-> "TargetConfigurationChanged"]

FileChanged(path) == [kind |-> "FileChanged", path |-> path]

Unknown(msg) == [kind |-> "Unknown", msg |-> msg]

\* The change text of Display for EnvVarChanged.
EnvChangeText(old_value, new_value) ==
    IF old_value.tag = "Some" /\ new_value.tag = "Some"
    THEN Concat(<< <<"'">>, old_value.val, <<"'", " ", "-", ">", " ", "'">>,
                   new_value.val, <<"'">> >>)
    ELSE IF old_value.tag = "Some"
    THEN Concat(<< <<"'">>, old_value.val,
                   <<"'", " ", "-", ">", " ", "u", "n", "s", "e", "t">> >>)
    ELSE IF new_value.tag = "Some"
    THEN Concat(<< <<"u", "n", "s", "e", "t", " ", "-", ">", " ", "'">>,
                   new_value.val, <<"'">> >>)
    ELSE <<"c", "h", "a", "n", "g", "e", "d">>

\* impl Display for RebuildReason (fmt).
display_fmt(reason) ==
    CASE reason.kind = "EnvVarChanged" ->
           Concat(<< <<"e", "n", "v", ":">>, reason.name, <<" ", "(">>,
                     EnvChangeText(reason.old_value, reason.new_value), <<")">> >>)
      [] reason.kind = "UnitDependencyInfoChanged" ->
           <<"d", "e", "p", ":">> \o reason.name
      [] reason.kind = "RustflagsChanged" ->
           <<"r", "u", "s", "t", "f", "l", "a", "g", "s", " ",
             "c", "h", "a", "n", "g", "e", "d">>
      [] reason.kind = "FeaturesChanged" ->
           Concat(<< <<"f", "e", "a", "t", "u", "r", "e", "s", ":", " ">>,
                     reason.old, <<" ", "-", ">", " ">>, reason.new >>)
      [] reason.kind = "ProfileConfigurationChanged" ->
           <<"p", "r", "o", "f", "i", "l", "e", " ", "c", "h", "a", "n", "g", "e", "d">>
      [] reason.kind = "TargetConfigurationChanged" ->
           <<"t", "a", "r", "g", "e", "t", " ", "c", "o", "n", "f", "i", "g", " ",
             "c", "h", "a", "n", "g", "e", "d">>
      [] reason.kind = "FileChanged" ->
           <<"f", "i", "l", "e", ":">> \o JoinWith(LastN(SplitOn(reason.path, "/"), 2), "/")
      [] reason.kind = "Unknown" ->
           <<"u", "n", "k", "n", "o", "w", "n", ":">> \o reason.msg

\* A reason key that renders the fingerprints of a dependency change too.
to_string_with_fingerprints(reason) ==
    IF reason.kind = "UnitDependencyInfoChanged"
    THEN Concat(<<display_fmt(reason), <<" ">>, reason.old_fingerprint,
                  <<" ">>, reason.new_fingerprint>>)
    ELSE display_fmt(reason)

\* node.reason.to_string(): the text add_node uses as the reason key.
to_string(reason) == display_fmt(reason)

\* ------------------------------------------------- PackageTarget / node
PackageTarget(package_id, target) == [package_id |-> package_id, target |-> target]

RebuildNode(package, reason) == [package |-> package, reason |-> reason]

\* !matches!(self.reason, RebuildReason::UnitDependencyInfoChanged { .. })
is_root_cause(node) == node.reason.kind # "UnitDependencyInfoChanged"

\* ---------------------------------------------------------- RebuildGraph
VARIABLES
    nodes,              \* Vec<RebuildNode>, Rust index i is nodes[i + 1]
    dependency_causes,  \* HashMap<String, Vec<usize>>
    package_to_node,    \* HashMap<PackageTarget, usize>
    seen_entries,       \* HashSet<(String, String)>
    last,               \* the last call made on the graph, its argument and its result
    driver              \* the run of Config::run around the graph, if there is one

vars == <<nodes, dependency_causes, package_to_node, seen_entries, last, driver>>

graph == <<nodes, dependency_causes, package_to_node, seen_entries>>

\* An empty HashMap.
EmptyMap == [k \in {} |-> 0]

\* HashMap::insert
MapInsert(m, k, v) == [x \in DOMAIN m \cup {k} |-> IF x = k THEN v ELSE m[x]]

\* HashMap::entry(k).or_default().push(v)
MapPush(m, k, v) ==
    [x \in DOMAIN m \cup {k} |->
        IF x = k THEN (IF k \in DOMAIN m THEN Append(m[k], v) ELSE <<v>>) ELSE m[x]]

\* The graph is used without the driver (a library caller, a test).
NoDriver == [pc |-> "none"]

\* RebuildGraph::new() / Default
Init ==
    /\ nodes = <<>>
    /\ dependency_causes = EmptyMap
    /\ package_to_node = EmptyMap
    /\ seen_entries = {}
    /\ last = [op |-> "new", arg |-> None, ret |-> None]
    /\ driver = NoDriver

\* add_node without the seen_entries test: every node is stored.
add_node_no_dedup(node) ==
    LET package_name == extract_package_name(node.package.package_id)
        entry_key == <<package_name, to_string(node.reason)>>
        idx == Len(nodes)
    IN  /\ seen_entries' = seen_entries \cup {entry_key}
        /\ package_to_node' = MapInsert(package_to_node, node.package, idx)
        /\ dependency_causes' =
               IF is_root_cause(node)
               THEN MapPush(dependency_causes, package_name, idx)
               ELSE dependency_causes
        /\ nodes' = Append(nodes, node)
        /\ last' = [op |-> "add_node", arg |-> node, ret |-> Some(idx)]

\* add_node with a package key normalized by normalize_crate_name.
add_node_normalized_key(node) ==
    LET package_name ==
            normalize_crate_name(extract_package_name(node.package.package_id))
        entry_key == <<package_name, to_string(node.reason)>>
        idx == Len(nodes)
    IN  IF entry_key \in seen_entries
        THEN /\ UNCHANGED graph
             /\ last' = [op |-> "add_node", arg |-> node, ret |-> None]
        ELSE /\ seen_entries' = seen_entries \cup {entry_key}
             /\ package_to_node' = MapInsert(package_to_node, node.package, idx)
             /\ dependency_causes' =
                    IF is_root_cause(node)
                    THEN MapPush(dependency_causes, package_name, idx)
                    ELSE dependency_causes
             /\ nodes' = Append(nodes, node)
             /\ last' = [op |-> "add_node", arg |-> node, ret |-> Some(idx)]

\* add_node that records the package in package_to_node before the
\* seen_entries test.
add_node_map_first(node) ==
    LET package_name == extract_package_name(node.package.package_id)
        entry_key == <<package_name, to_string(node.reason)>>
        idx == Len(nodes)
    IN  /\ package_to_node' = MapInsert(package_to_node, node.package, idx)
        /\ IF entry_key \in seen_entries
           THEN /\ UNCHANGED <<nodes, dependency_causes, seen_entries>>
                /\ last' = [op |-> "add_node", arg |-> node, ret |-> None]
           ELSE /\ seen_entries' = seen_entries \cup {entry_key}
                /\ dependency_causes' =
                       IF is_root_cause(node)
                       THEN MapPush(dependency_causes, package_name, idx)
                       ELSE dependency_causes
                /\ nodes' = Append(nodes, node)
                /\ last' = [op |-> "add_node", arg |-> node, ret |-> Some(idx)]

\* add_node that records cascades in the root-cause index as well.
add_node_indexes_cascades(node) ==
    LET package_name == extract_package_name(node.package.package_id)
        reason_key == to_string(node.reason)
        entry_key == <<package_name, reason_key>>
        idx == Len(nodes)
    IN  IF entry_key \in seen_entries
        THEN /\ UNCHANGED graph
             /\ last' = [op |-> "add_node", arg |-> node, ret |-> None]
        ELSE /\ seen_entries' = seen_entries \cup {entry_key}
             /\ package_to_node' = MapInsert(package_to_node, node.package, idx)
             /\ dependency_causes' = MapPush(dependency_causes, package_name, idx)
             /\ nodes' = Append(nodes, node)
             /\ last' = [op |-> "add_node", arg |-> node, ret |-> Some(idx)]

\* RebuildGraph::add_node
add_node(node) ==
    LET package_name == extract_package_name(node.package.package_id)
        reason_key == to_string(node.reason)
        entry_key == <<package_name, reason_key>>
        idx == Len(nodes)
    IN  IF entry_key \in seen_entries
        THEN /\ UNCHANGED graph
             /\ last' = [op |-> "add_node", arg |-> node, ret |-> None]
        ELSE /\ seen_entries' = seen_entries \cup {entry_key}
             /\ package_to_node' = MapInsert(package_to_node, node.package, idx)
             /\ dependency_causes' =
                    IF is_root_cause(node)
                    THEN MapPush(dependency_causes, package_name, idx)
                    ELSE dependency_causes
             /\ nodes' = Append(nodes, node)
             /\ last' = [op |-> "add_node", arg |-> node, ret |-> Some(idx)]

\* RebuildGraph::root_causes: nodes.iter().filter(|n| n.is_root_cause())
root_causes(ns) == SelectSeq(ns, is_root_cause)

\* RebuildGraph::is_empty
is_empty(ns) == Len(ns) = 0

RECURSIVE is_transitively_affected(_, _, _, _)
RECURSIVE TransitiveScan(_, _, _, _, _)
\* RebuildGraph::is_transitively_affected.  The function is pure and the node
\* list does not change during a query, so a call whose normalized dep_name
\* is already active on the call stack repeats that call for ever: the
\* recursion has no visited set and the build ends in a stack overflow.
\* `active` is the set of normalized dep_names of the calls on the stack;
\* the result is "true", "false" or "overflow".
is_transitively_affected(ns, dep_name, root_name, active) ==
    IF normalize_crate_name(dep_name) \in active THEN "overflow"
    ELSE TransitiveScan(ns, 1, dep_name, root_name,
                        active \cup {normalize_crate_name(dep_name)})

\* The `for node in &self.nodes` loop of is_transitively_affected, from
\* position i on.
TransitiveScan(ns, i, dep_name, root_name, active) ==
    IF i > Len(ns) THEN "false"
    ELSE
      LET node == ns[i]
          root_name_normalized == normalize_crate_name(root_name)
          package_name == extract_package_name(node.package.package_id)
          package_name_normalized == normalize_crate_name(package_name)
          dep_name_normalized == normalize_crate_name(dep_name)
      IN  IF package_name_normalized # dep_name_normalized
          THEN TransitiveScan(ns, i + 1, dep_name, root_name, active)
          ELSE IF node.reason.kind # "UnitDependencyInfoChanged"
          THEN TransitiveScan(ns, i + 1, dep_name, root_name, active)
          ELSE IF normalize_crate_name(node.reason.name) = root_name_normalized
          THEN "true"
          ELSE LET r == is_transitively_affected(ns, node.reason.name, root_name, active)
               IN  IF r = "false"
                   THEN TransitiveScan(ns, i + 1, dep_name, root_name, active)
                   ELSE r

RECURSIVE AffectedScan(_, _, _, _, _)
\* The `for (idx, node) in self.nodes.iter().enumerate()` loop of
\* find_affected_packages from Rust index idx on; a stack overflow in
\* is_transitively_affected ends the whole query.
AffectedScan(ns, root_idx, idx, affected, visited) ==
    IF idx >= Len(ns) THEN [overflow |-> FALSE, affected |-> affected]
    ELSE
      LET node == ns[idx + 1]
          root_name == extract_package_name(ns[root_idx + 1].package.package_id)
          root_name_normalized == normalize_crate_name(root_name)
      IN  IF idx \in visited
          THEN AffectedScan(ns, root_idx, idx + 1, affected, visited)
          ELSE IF node.reason.kind # "UnitDependencyInfoChanged"
          THEN AffectedScan(ns, root_idx, idx + 1, affected, visited)
          ELSE
            LET dep_name_normalized == normalize_crate_name(node.reason.name)
                is_affected ==
                    IF dep_name_normalized = root_name_normalized THEN "true"
                    ELSE is_transitively_affected(ns, node.reason.name, root_name, {})
            IN  IF is_affected = "overflow"
                THEN [overflow |-> TRUE, affected |-> affected]
                ELSE IF is_affected = "true"
                THEN AffectedScan(ns, root_idx, idx + 1,
                                  Append(affected, node), visited \cup {idx})
                ELSE AffectedScan(ns, root_idx, idx + 1, affected, visited)

\* find_affected_packages that also takes the other root-cause nodes of the
\* root's package for affected.
find_affected_packages_any_kind(ns, root_idx) ==
    LET found == AffectedScan(ns, root_idx, 0, <<>>, {root_idx})
        root_name == extract_package_name(ns[root_idx + 1].package.package_id)
        SamePackageRoot(n) ==
            /\ is_root_cause(n)
            /\ n # ns[root_idx + 1]
            /\ extract_package_name(n.package.package_id) = root_name
    IN  [overflow |-> found.overflow,
         affected |-> found.affected \o SelectSeq(ns, SamePackageRoot)]

\* RebuildGraph::find_affected_packages
find_affected_packages(ns, root_idx) ==
    AffectedScan(ns, root_idx, 0, <<>>, {root_idx})

RECURSIVE ChainsLoop(_, _, _)
\* The `for (root_idx, root_node) in root_causes` loop of root_cause_chains
\* from Rust index idx on.
ChainsLoop(ns, idx, chains) ==
    IF idx >= Len(ns) THEN [overflow |-> FALSE, chains |-> chains]
    ELSE IF ~is_root_cause(ns[idx + 1]) THEN ChainsLoop(ns, idx + 1, chains)
    ELSE LET found == find_affected_packages(ns, idx) IN
         IF found.overflow THEN [overflow |-> TRUE, chains |-> <<>>]
         ELSE ChainsLoop(ns, idx + 1,
                         Append(chains, [root_cause |-> ns[idx + 1],
                                         affected_packages |-> found.affected]))

\* RebuildGraph::root_cause_chains
root_cause_chains(ns) == ChainsLoop(ns, 0, <<>>)

\* RootCauseChain::total_rebuilds
total_rebuilds(chain) == 1 + Len(chain.affected_packages)

\* ------------------------------------------------------------- operations
\* A caller reads root_causes().
RootCauses ==
    /\ last' = [op |-> "root_causes", arg |-> None, ret |-> root_causes(nodes)]
    /\ UNCHANGED <<graph, driver>>

\* A caller reads root_cause_chains() (to_json serializes exactly this).
RootCauseChains ==
    /\ last' = [op |-> "root_cause_chains", arg |-> None, ret |-> root_cause_chains(nodes)]
    /\ UNCHANGED <<graph, driver>>

\* ------------------------------------------------------------------ inputs
PkgAB1 == <<"a", "-", "b", " ", "1">>

PkgAB2 == <<"a", "-", "b", " ", "2">>

PkgA_B1 == <<"a", "_", "b", " ", "1">>

PkgC == <<"c">>

PkgD2 == <<"d", " ", "2">>

\* Nodes of the chain specification: three root causes (two of one package)
\* and cascades among the packages a-b, c and d, with dependency names in
\* the crate-name spelling (a_b) the build tool logs.
ChainNodes ==
    {RebuildNode(PackageTarget(PkgAB1, None), TargetConfigurationChanged),
     RebuildNode(PackageTarget(PkgAB1, None), FileChanged(<<"/", "s", "/", "m">>)),
     RebuildNode(PackageTarget(PkgD2, None), TargetConfigurationChanged)}
    \cup
    {RebuildNode(PackageTarget(p, None), UnitDependencyInfoChanged(d, <<"1">>, <<"2">>)) :
        p \in {PkgC, PkgD2}, d \in {<<"a", "_", "b">>, <<"c">>, <<"d">>}}
    \cup
    {RebuildNode(PackageTarget(PkgAB1, None),
                 UnitDependencyInfoChanged(<<"c">>, <<"1">>, <<"2">>))}

\* Reasons of the deduplication specification: every variant, with payloads
\* that differ inside one variant.
DedupReasons ==
    {EnvVarChanged(<<"C">>, Some(<<"g">>), None),
     EnvVarChanged(<<"C">>, None, Some(<<"g">>)),
     UnitDependencyInfoChanged(<<"x">>, <<"1">>, <<"2">>),
     UnitDependencyInfoChanged(<<"x">>, <<"3">>, <<"4">>),
     UnitDependencyInfoChanged(<<"y">>, <<"1">>, <<"2">>),
     RustflagsChanged(<< <<"f">> >>, <<>>),
     RustflagsChanged(<<>>, << <<"f">> >>),
     FeaturesChanged(<<"p">>, <<"q">>),
     FeaturesChanged(<<"q">>, <<"p">>),
     ProfileConfigurationChanged,
     TargetConfigurationChanged,
     FileChanged(<<"/", "x", "/", "s", "/", "m">>),
     FileChanged(<<"/", "y", "/", "s", "/", "m">>),
     FileChanged(<<"/", "y", "/", "s", "/", "n">>),
     Unknown(<<"u">>),
     Unknown(<<"w">>)}

\* Packages of the deduplication specification: one name with two versions
\* and two targets, and the same name spelled with '_'.
DedupPackages ==
    {PackageTarget(PkgAB1, None),
     PackageTarget(PkgAB2, Some(<<"t">>)),
     PackageTarget(PkgA_B1, None)}

DedupNodes == {RebuildNode(p, r) : p \in DedupPackages, r \in DedupReasons}

\* --------------------------------------------------------- specifications
\* The driver (or a test) adds one node of the chain inputs.
AddChainNode == /\ Len(nodes) < MaxNodes
                /\ \E node \in ChainNodes : add_node(node)
                /\ UNCHANGED driver

\* The driver (or a test) adds one node of the deduplication inputs.
AddDedupNode == /\ Len(nodes) < MaxDedupNodes
                /\ \E node \in DedupNodes : add_node(node)
                /\ UNCHANGED driver

Next == AddChainNode \/ RootCauses \/ RootCauseChains

Spec == Init /\ [][Next]_vars

NextDedup == AddDedupNode \/ RootCauses

SpecDedup == Init /\ [][NextDedup]_vars

\* ------------------------------------------------- vocabulary of the claims
IsCascade(node) == node.reason.kind = "UnitDependencyInfoChanged"

\* The first whitespace-delimited token of a package id that does not start
\* with whitespace (every package id of the inputs).
FirstToken(package_id) ==
    LET spaces == {i \in 1..Len(package_id) : package_id[i] = " "} IN
    IF spaces = {} THEN package_id
    ELSE SubSeq(package_id, 1, (CHOOSE i \in spaces : \A j \in spaces : i <= j) - 1)

\* '-' and '_' read as the same character.
SameUpToDash(x, y) ==
    /\ Len(x) = Len(y)
    /\ \A i \in 1..Len(x) :
          \/ x[i] = y[i]
          \/ (x[i] \in {"-", "_"} /\ y[i] \in {"-", "_"})

\* node's version-stripped package name equals name up to '-'/'_'.
PackageIs(node, name) == SameUpToDash(FirstToken(node.package.package_id), name)

\* The result of the last call is a returned value of root_cause_chains().
ChainsReturned == last.op = "root_cause_chains" /\ ~last.ret.overflow

\* The last call was root_cause_chains() and it overflowed the stack.
ChainsCrashed == last.op = "root_cause_chains" /\ last.ret.overflow

\* node occurs in the sequence seq.
Occurs(node, seq) == \E k \in 1..Len(seq) : seq[k] = node

\* Dependency names that lead to root over the 'Y caused X' edges: the least
\* set holding every name equal to root's package name, and every package
\* name of a stored cascade node that names a dependency already in the set.
NamesOf(ns) ==
    {FirstToken(ns[i].package.package_id) : i \in 1..Len(ns)}
    \cup {ns[i].reason.name : i \in {j \in 1..Len(ns) : IsCascade(ns[j])}}

RECURSIVE CausedNames(_, _)
CausedNames(ns, caused) ==
    LET more == {d \in NamesOf(ns) :
                    \E i \in 1..Len(ns) :
                        /\ IsCascade(ns[i])
                        /\ PackageIs(ns[i], d)
                        /\ \E e \in caused : SameUpToDash(ns[i].reason.name, e)}
    IN  IF more \subseteq caused THEN caused ELSE CausedNames(ns, caused \cup more)

ReachesRoot(ns, node, root) ==
    /\ IsCascade(node)
    /\ \E e \in CausedNames(ns, {d \in NamesOf(ns) : PackageIs(root, d)}) :
          SameUpToDash(node.reason.name, e)

\* In the returned chains, every root cause has a chain whose affected nodes
\* are exactly the stored nodes that reach it.
AffectedIsReachability(chains) ==
    \A r \in 1..Len(nodes) :
        ~IsCascade(nodes[r]) =>
            \E c \in 1..Len(chains) :
                /\ chains[c].root_cause = nodes[r]
                /\ \A i \in 1..Len(nodes) :
                      Occurs(nodes[i], chains[c].affected_packages)
                          <=> ReachesRoot(nodes, nodes[i], nodes[r])

\* C1: for every graph built by add_node calls and every root cause R,
\* root_cause_chains() puts a stored node N in R's affected_packages if and
\* only if N is a cascade whose dependency name reaches R's package over the
\* 'Y caused X' edges.
C1_AffectedIsReachability ==
    last.op = "root_cause_chains" =>
        /\ ~last.ret.overflow
        /\ AffectedIsReachability(last.ret.chains)

\* What holds of the code for C1: whenever root_cause_chains() returns, the
\* affected sets are exactly reachability.
ReturnedChainsAreReachability ==
    ChainsReturned => AffectedIsReachability(last.ret.chains)

\* C2: for every graph reachable by add_node calls, cyclic dependency names
\* and self-dependencies included, root_cause_chains() terminates and
\* returns a result.
C2_ChainsTerminate == last.op = "root_cause_chains" => ~last.ret.overflow

\* A graph on which root_cause_chains() was called while a cascade node
\* names a dependency cycle (here: its own package).
SelfDependencyQueried ==
    /\ last.op = "root_cause_chains"
    /\ \E i \in 1..Len(nodes) :
          IsCascade(nodes[i]) /\ PackageIs(nodes[i], nodes[i].reason.name)

\* ------------------------------------------------------ deduplication
\* node's version-stripped package name, compared exactly.
SamePackageName(m, n) ==
    FirstToken(m.package.package_id) = FirstToken(n.package.package_id)

\* node's version-stripped package name, '-' and '_' read as equal.
SameNormalizedPackage(m, n) ==
    SameUpToDash(FirstToken(m.package.package_id), FirstToken(n.package.package_id))

\* The reason category of the claims: the kind and, for a dependency change,
\* the named dependency; every other payload ignored.
SameKindCategory(r1, r2) ==
    /\ r1.kind = r2.kind
    /\ r1.kind = "UnitDependencyInfoChanged" => r1.name = r2.name

\* The last two '/'-separated components of a path.
PathTail(path) ==
    LET slashes == {i \in 1..Len(path) : path[i] = "/"}
        before == {i \in slashes : \E j \in slashes : i < j}
    IN  IF before = {} THEN path
        ELSE SubSeq(path, (CHOOSE i \in before : \A j \in before : j <= i) + 1, Len(path))

\* The reason category the code deduplicates by: the kind, and per kind the
\* payload its short rendering shows.
SameShownCategory(r1, r2) ==
    /\ r1.kind = r2.kind
    /\ r1.kind = "UnitDependencyInfoChanged" => r1.name = r2.name
    /\ r1.kind = "EnvVarChanged" =>
          /\ r1.name = r2.name
          /\ r1.old_value = r2.old_value
          /\ r1.new_value = r2.new_value
    /\ r1.kind = "FeaturesChanged" => (r1.old = r2.old /\ r1.new = r2.new)
    /\ r1.kind = "FileChanged" => PathTail(r1.path) = PathTail(r2.path)
    /\ r1.kind = "Unknown" => r1.msg = r2.msg

\* The key pair add_node computes for a node.
EntryKey(node) ==
    <<extract_package_name(node.package.package_id), to_string(node.reason)>>

\* The last call was an add_node that found its key already inserted.
DuplicateRejected == last.op = "add_node" /\ last.ret = None

C4_OneNodePerKindCategory ==
    \A i, j \in 1..Len(nodes) :
        i < j =>
            ~(/\ SameNormalizedPackage(nodes[i], nodes[j])
              /\ SameKindCategory(nodes[i].reason, nodes[j].reason))

\* C4 (amended): inserting two nodes with the same version-stripped package
\* name and the same shown reason category yields exactly one stored node,
\* for every reason variant: a second such insert returns absence and no two
\* stored nodes share name and shown category.
C4_OneNodePerShownCategory ==
    /\ \A i, j \in 1..Len(nodes) :
          i < j =>
              ~(/\ SamePackageName(nodes[i], nodes[j])
                /\ SameShownCategory(nodes[i].reason, nodes[j].reason))
    /\ (last.op = "add_node" /\ last.ret # None) =>
          \A i \in 1..Len(nodes) :
              (/\ SamePackageName(nodes[i], last.arg)
               /\ SameShownCategory(nodes[i].reason, last.arg.reason))
                  => i = last.ret.val + 1

\* C4 witness: a node was rejected whose payload or package id differs from
\* the stored node of its package name and shown category.
C4_Witness ==
    /\ DuplicateRejected
    /\ \E i \in 1..Len(nodes) :
          /\ nodes[i] # last.arg
          /\ SamePackageName(nodes[i], last.arg)
          /\ SameShownCategory(nodes[i].reason, last.arg.reason)
          /\ nodes[i].reason # last.arg.reason

\* Two dependency-change nodes of one package name and one dependency whose
\* fingerprints differ.
SameCascadeOtherFingerprints(m, n) ==
    /\ IsCascade(m) /\ IsCascade(n)
    /\ SamePackageName(m, n)
    /\ m.reason.name = n.reason.name
    /\ \/ m.reason.old_fingerprint # n.reason.old_fingerprint
       \/ m.reason.new_fingerprint # n.reason.new_fingerprint

\* C5: two UnitDependencyInfoChanged nodes with the same first token of the
\* package id and the same dependency but different fingerprints store
\* exactly one node: the second add_node returns absence.
C5_CascadeDedupIgnoresFingerprints ==
    /\ \A i, j \in 1..Len(nodes) :
          ~SameCascadeOtherFingerprints(nodes[i], nodes[j])
    /\ (last.op = "add_node"
          /\ \E i \in 1..Len(nodes) : SameCascadeOtherFingerprints(nodes[i], last.arg))
        => last.ret = None

\* C5 witness: the second of two such nodes, of another version and target,
\* was offered and rejected.
C5_Witness ==
    /\ DuplicateRejected
    /\ \E i \in 1..Len(nodes) :
          /\ SameCascadeOtherFingerprints(nodes[i], last.arg)
          /\ nodes[i].package # last.arg.package

\* Two nodes with one reason key whose package names differ only in '-'
\* versus '_'.
DashVariants(m, n) ==
    /\ SameNormalizedPackage(m, n)
    /\ ~SamePackageName(m, n)
    /\ to_string(m.reason) = to_string(n.reason)

C7_DuplicateLeavesGraphUnchanged ==
    [][(last'.op = "add_node"
          /\ <<FirstToken(last'.arg.package.package_id), to_string(last'.arg.reason)>>
                \in seen_entries)
        => (/\ last'.ret = None
            /\ nodes' = nodes
            /\ dependency_causes' = dependency_causes
            /\ package_to_node' = package_to_node
            /\ seen_entries' = seen_entries)]_vars

\* C7 witness: a duplicate was rejected whose PackageTarget is not a key of
\* the package-to-node map.
C7_Witness ==
    /\ DuplicateRejected
    /\ last.arg.package \notin DOMAIN package_to_node

\* ------------------------------------------------------------- queries
\* The positions of the stored root causes, in insertion order.
RootPositions == {i \in 1..Len(nodes) : ~IsCascade(nodes[i])}

\* The k-th stored root cause.
KthRoot(k) ==
    nodes[CHOOSE i \in RootPositions :
              Cardinality({j \in RootPositions : j <= i}) = k]

\* C8: root_causes() returns exactly the stored nodes that are not
\* UnitDependencyInfoChanged, in insertion order, and root_cause_chains()
\* returns exactly one chain per such node, in the same order, chain i's
\* root_cause being root_causes()[i].
C8_RootCausesAndChains ==
    /\ last.op = "root_causes" =>
          /\ Len(last.ret) = Cardinality(RootPositions)
          /\ \A k \in 1..Len(last.ret) : last.ret[k] = KthRoot(k)
    /\ last.op = "root_cause_chains" =>
          /\ ~last.ret.overflow
          /\ Len(last.ret.chains) = Cardinality(RootPositions)
          /\ \A k \in 1..Len(last.ret.chains) :
                last.ret.chains[k].root_cause = KthRoot(k)

\* What holds of the code for C8: root_causes() is as claimed, and so is
\* every result root_cause_chains() returns.
ReturnedChainsFollowRootCauses ==
    /\ last.op = "root_causes" =>
          /\ Len(last.ret) = Cardinality(RootPositions)
          /\ \A k \in 1..Len(last.ret) : last.ret[k] = KthRoot(k)
    /\ ChainsReturned =>
          /\ Len(last.ret.chains) = Cardinality(RootPositions)
          /\ \A k \in 1..Len(last.ret.chains) :
                last.ret.chains[k].root_cause = KthRoot(k)

\* C9: in every chain returned by root_cause_chains() the root_cause is not
\* a UnitDependencyInfoChanged node, every element of affected_packages is
\* one, and no stored node occurs twice in one chain's affected_packages.
C9_ChainShape ==
    ChainsReturned =>
        \A c \in 1..Len(last.ret.chains) :
            LET chain == last.ret.chains[c] IN
            /\ ~IsCascade(chain.root_cause)
            /\ \A k \in 1..Len(chain.affected_packages) :
                  /\ IsCascade(chain.affected_packages[k])
                  /\ \A m \in 1..Len(chain.affected_packages) :
                        m # k => chain.affected_packages[m] # chain.affected_packages[k]

\* C9 witness: a returned chain that has two affected nodes.
C9_Witness ==
    /\ ChainsReturned
    /\ \E c \in 1..Len(last.ret.chains) : Len(last.ret.chains[c].affected_packages) = 2

\* C10: a cascade node whose dependency name equals a stored root cause's
\* version-stripped package name up to '-'/'_' is in that root cause's
\* affected_packages, normalization is idempotent, and a chain's
\* total_rebuilds is 1 plus the number of affected nodes.
C10_NormalizedLookup ==
    /\ \A x \in NamesOf(nodes) :
          normalize_crate_name(normalize_crate_name(x)) = normalize_crate_name(x)
    /\ last.op = "root_cause_chains" =>
          /\ ~last.ret.overflow
          /\ \A r \in RootPositions :
                \E c \in 1..Len(last.ret.chains) :
                    LET chain == last.ret.chains[c] IN
                    /\ chain.root_cause = nodes[r]
                    /\ \A i \in 1..Len(nodes) :
                          (IsCascade(nodes[i]) /\ PackageIs(nodes[r], nodes[i].reason.name))
                              => Occurs(nodes[i], chain.affected_packages)
                    /\ total_rebuilds(chain) =
                          1 + Cardinality({i \in 1..Len(nodes) :
                                              Occurs(nodes[i], chain.affected_packages)})

\* What holds of the code for C10: the same, of every result that
\* root_cause_chains() returns.
ReturnedChainsUseNormalizedLookup ==
    ChainsReturned =>
        \A r \in RootPositions :
            \E c \in 1..Len(last.ret.chains) :
                LET chain == last.ret.chains[c] IN
                /\ chain.root_cause = nodes[r]
                /\ \A i \in 1..Len(nodes) :
                      (IsCascade(nodes[i]) /\ PackageIs(nodes[r], nodes[i].reason.name))
                          => Occurs(nodes[i], chain.affected_packages)
                /\ total_rebuilds(chain) =
                      1 + Cardinality({i \in 1..Len(nodes) :
                                          Occurs(nodes[i], chain.affected_packages)})

\* A returned chain of root cause 'a-b 1' that holds a cascade naming 'a_b'.
NormalizedLookupReturned ==
    /\ ChainsReturned
    /\ \E c \in 1..Len(last.ret.chains) :
          \E k \in 1..Len(last.ret.chains[c].affected_packages) :
              LET n == last.ret.chains[c].affected_packages[k] IN
              /\ PackageIs(last.ret.chains[c].root_cause, n.reason.name)
              /\ FirstToken(last.ret.chains[c].root_cause.package.package_id) # n.reason.name

\* ===================================================== log-line parser
\* (src/src/fingerprint_parser.rs)

\* A string literal as the sequence of its characters.
Chars(str) == [i \in 1..Len(str) |-> SubSeq(str, i, i)]

\* s[n..]: s without its first n characters.
Drop(s, n) == SubSeq(s, n + 1, Len(s))

\* str::starts_with
StartsWith(s, t) == Len(s) >= Len(t) /\ SubSeq(s, 1, Len(t)) = t

\* str::find(pattern): the position (from 1) of the first occurrence of pat
\* in s, 0 when there is none (Rust's None).
Find(s, pat) ==
    LET hits == {i \in 1..(Len(s) - Len(pat) + 1) : SubSeq(s, i, i + Len(pat) - 1) = pat}
    IN  IF hits = {} THEN 0 ELSE CHOOSE i \in hits : \A j \in hits : i <= j

\* str::find(&[char]): the position of the first character of s in set cs.
FindAny(s, cs) ==
    LET hits == {i \in 1..Len(s) : s[i] \in cs}
    IN  IF hits = {} THEN 0 ELSE CHOOSE i \in hits : \A j \in hits : i <= j

\* str::contains
Contains(s, pat) == Find(s, pat) # 0

RECURSIVE TrimEnd(_)
\* str::trim_end
TrimEnd(s) ==
    IF s # <<>> /\ IsWhitespace(s[Len(s)]) THEN TrimEnd(SubSeq(s, 1, Len(s) - 1)) ELSE s

\* str::trim
Trim(s) == TrimEnd(SkipWhitespace(s))

\* The state of a nom parser between two combinators: whether every
\* combinator so far succeeded, the remaining input, the values produced.
ParseStart(input) == [ok |-> TRUE, rest |-> input, vals |-> <<>>]

\* nom::Err::Error: the `?` of every later step returns it unchanged.
ParseFail == [ok |-> FALSE, rest |-> <<>>, vals |-> <<>>]

\* A parser is the sequence of the primitive combinators it applies in
\* order, so that nom's tuple((p, q)) is p \o q.
\* nom tag(t)
tag(t) == <<[c |-> "tag", arg |-> Chars(t)]>>

\* nom char(ch)
char(ch) == <<[c |-> "char", arg |-> ch]>>

\* nom space0
space0 == <<[c |-> "space0", arg |-> <<>>]>>

\* parse_number: map(digit1, to_string)
parse_number == <<[c |-> "digit1", arg |-> <<>>]>>

\* parse_quoted_string: delimited(char('"'), take_until("\""), char('"'))
parse_quoted_string == <<[c |-> "quoted", arg |-> <<>>]>>

\* parse_option_string: alt((None, Some( quoted )))
parse_option_string == <<[c |-> "option", arg |-> <<>>]>>

\* parse_comma: tuple((space0, char(','), space0))
parse_comma == space0 \o char(",") \o space0

\* tuple((tag(name), space0, char(':'), space0)) before a field's value
field(name) == tag(name) \o space0 \o char(":") \o space0

RECURSIVE SkipSpaces(_)
SkipSpaces(s) ==
    IF s # <<>> /\ Head(s) \in {" ", "\t"} THEN SkipSpaces(Tail(s)) ELSE s

Digits == {"0", "1", "2", "3", "4", "5", "6", "7", "8", "9"}

RECURSIVE TakeDigits(_)
TakeDigits(s) ==
    IF s # <<>> /\ Head(s) \in Digits THEN <<Head(s)>> \o TakeDigits(Tail(s)) ELSE <<>>

\* digit1 that keeps at most the 20 digits of a 64-bit number.
ApplyDigit1_64bit(st) ==
    LET digits == TakeDigits(st.rest) IN
    IF digits = <<>> THEN ParseFail
    ELSE [st EXCEPT !.rest = Drop(st.rest, Len(digits)),
                    !.vals = Append(st.vals, SubSeq(digits, 1, IF Len(digits) < 20 THEN Len(digits) ELSE 20))]

\* digit1: one or more decimal digits, kept as text.
ApplyDigit1(st) ==
    LET digits == TakeDigits(st.rest) IN
    IF digits = <<>> THEN ParseFail
    ELSE [st EXCEPT !.rest = Drop(st.rest, Len(digits)),
                    !.vals = Append(st.vals, digits)]

\* char('"'), take_until("\""), char('"'): the text up to the next quote.
ApplyQuoted(st) ==
    LET close == IF st.rest # <<>> /\ Head(st.rest) = "\""
                 THEN Find(Tail(st.rest), <<"\"">>) ELSE 0
    IN  IF close = 0 THEN ParseFail
        ELSE [st EXCEPT !.rest = Drop(st.rest, close + 1),
                        !.vals = Append(st.vals, SubSeq(st.rest, 2, close))]

\* alt((map(tag("None"), |_| None),
\*      map(delimited(tag("Some("), parse_quoted_string, char(')')), Some)))
ApplyOption(st) ==
    IF StartsWith(st.rest, Chars("None"))
    THEN [st EXCEPT !.rest = Drop(st.rest, 4), !.vals = Append(st.vals, None)]
    ELSE IF StartsWith(st.rest, Chars("Some("))
    THEN LET quoted == ApplyQuoted([st EXCEPT !.rest = Drop(st.rest, 5)]) IN
         IF quoted.ok /\ quoted.rest # <<>> /\ Head(quoted.rest) = ")"
         THEN [st EXCEPT !.rest = Tail(quoted.rest),
                         !.vals = Append(st.vals, Some(quoted.vals[Len(quoted.vals)]))]
         ELSE ParseFail
    ELSE ParseFail

\* One primitive combinator applied to the remaining input.
Apply(st, p) ==
    CASE p.c = "tag" ->
            IF StartsWith(st.rest, p.arg)
            THEN [st EXCEPT !.rest = Drop(st.rest, Len(p.arg))] ELSE ParseFail
      [] p.c = "char" ->
            IF st.rest # <<>> /\ Head(st.rest) = p.arg
            THEN [st EXCEPT !.rest = Tail(st.rest)] ELSE ParseFail
      [] p.c = "space0" -> [st EXCEPT !.rest = SkipSpaces(st.rest)]
      [] p.c = "digit1" -> ApplyDigit1(st)
      [] p.c = "quoted" -> ApplyQuoted(st)
      [] p.c = "option" -> ApplyOption(st)

RECURSIVE ApplyTuple(_, _, _, _)
\* The combinators parsers[lo..hi] applied in order; the first failure is
\* the result (the `?` after each step).
ApplyTuple(st, parsers, lo, hi) ==
    IF lo > hi THEN st
    ELSE IF lo = hi THEN Apply(st, parsers[lo])
    ELSE LET mid == (lo + hi) \div 2
             left == ApplyTuple(st, parsers, lo, mid)
         IN  IF left.ok THEN ApplyTuple(left, parsers, mid + 1, hi) ELSE ParseFail

\* parser(input): IResult with the values produced, in order.
Parse(parsers, input) == ApplyTuple(ParseStart(input), parsers, 1, Len(parsers))

\* The Err of a reason parser.
ReasonErr == [ok |-> FALSE]

\* The closing Ok((input, reason)) of a reason parser, reached when no `?`
\* returned before it.
ReasonOk(r, reason) ==
    IF r.ok THEN [ok |-> TRUE, rest |-> r.rest, reason |-> reason] ELSE ReasonErr

\* The combinators of parse_env_var_changed.
env_var_changed ==
    tag("EnvVarChanged") \o space0 \o char("{") \o space0
    \o field("name") \o parse_quoted_string \o parse_comma
    \o field("old_value") \o parse_option_string \o parse_comma
    \o field("new_value") \o parse_option_string
    \o space0 \o char("}")

\* parse_env_var_changed with old_value and new_value exchanged.
parse_env_var_changed_swapped(input) ==
    LET r == Parse(env_var_changed, input) IN
    ReasonOk(r, EnvVarChanged(r.vals[1], r.vals[3], r.vals[2]))

\* parse_env_var_changed
parse_env_var_changed(input) ==
    LET r == Parse(env_var_changed, input) IN
    ReasonOk(r, EnvVarChanged(r.vals[1], r.vals[2], r.vals[3]))

\* The combinators of parse_unit_dependency_info_changed.
unit_dependency_info_changed ==
    tag("UnitDependencyInfoChanged") \o space0 \o char("{") \o space0
    \o field("old_name") \o parse_quoted_string \o parse_comma
    \o field("old_fingerprint") \o parse_number \o parse_comma
    \o field("new_name") \o parse_quoted_string \o parse_comma
    \o field("new_fingerprint") \o parse_number
    \o space0 \o char("}")

\* parse_unit_dependency_info_changed: old_name, old_fingerprint, _new_name,
\* new_fingerprint are the four values; the name is old_name.
parse_unit_dependency_info_changed(input) ==
    LET r == Parse(unit_dependency_info_changed, input) IN
    ReasonOk(r, UnitDependencyInfoChanged(r.vals[1], r.vals[2], r.vals[4]))

\* parse_target_configuration_changed
parse_target_configuration_changed(input) ==
    LET r == Parse(tag("TargetConfigurationChanged"), input) IN
    ReasonOk(r, TargetConfigurationChanged)

\* parse_file_time: seconds and nanos are two values.
parse_file_time ==
    tag("FileTime") \o space0 \o char("{") \o space0
    \o field("seconds") \o parse_number \o parse_comma
    \o field("nanos") \o parse_number
    \o space0 \o char("}")

\* parse_changed_file: the values are reference, (seconds, nanos), stale,
\* (seconds, nanos).
parse_changed_file ==
    tag("ChangedFile") \o space0 \o char("{") \o space0
    \o field("reference") \o parse_quoted_string \o parse_comma
    \o field("reference_mtime") \o parse_file_time \o parse_comma
    \o field("stale") \o parse_quoted_string \o parse_comma
    \o field("stale_mtime") \o parse_file_time
    \o space0 \o char("}")

\* The combinators of parse_fs_status_outdated_changed_file.
fs_status_outdated_changed_file ==
    tag("FsStatusOutdated") \o char("(") \o tag("StaleItem") \o char("(")
    \o parse_changed_file \o char(")") \o char(")")

\* parse_fs_status_outdated_changed_file taking the reference path.
parse_fs_status_outdated_changed_file_reference(input) ==
    LET r == Parse(fs_status_outdated_changed_file, input) IN
    ReasonOk(r, FileChanged(r.vals[1]))

\* parse_fs_status_outdated_changed_file: parse_changed_file returns the
\* stale path, the fourth value.
parse_fs_status_outdated_changed_file(input) ==
    LET r == Parse(fs_status_outdated_changed_file, input) IN
    ReasonOk(r, FileChanged(r.vals[4]))

\* The combinators of parse_fs_status_outdated_stale_dep.
fs_status_outdated_stale_dep ==
    tag("FsStatusOutdated") \o char("(") \o tag("StaleDepFingerprint")
    \o space0 \o char("{") \o space0
    \o field("name") \o parse_quoted_string
    \o space0 \o char("}") \o char(")")

\* parse_fs_status_outdated_stale_dep
parse_fs_status_outdated_stale_dep(input) ==
    LET r == Parse(fs_status_outdated_stale_dep, input) IN
    ReasonOk(r, UnitDependencyInfoChanged(r.vals[1], <<>>, <<>>))

\* nom alt: the result of the first parser that succeeds, the error of the
\* last when none does.
alt(results) ==
    LET matched == {i \in DOMAIN results : results[i].ok} IN
    IF matched = {} THEN results[Len(results)]
    ELSE results[CHOOSE i \in matched : \A j \in matched : i <= j]

\* parse_dirty_reason_content: alt over the five shapes in this order.
parse_dirty_reason_content(input) ==
    alt(<<parse_env_var_changed(input),
          parse_unit_dependency_info_changed(input),
          parse_target_configuration_changed(input),
          parse_fs_status_outdated_stale_dep(input),
          parse_fs_status_outdated_changed_file(input)>>)

\* The match that takes a reason only when the parser left nothing over.
ok_reason_all_consuming(result) ==
    IF result.ok /\ result.rest = <<>> THEN Some(result.reason) ELSE None

\* match result { Ok((_, reason)) => Some(reason), Err(_) => None }
ok_reason(result) == IF result.ok THEN Some(result.reason) ELSE None

\* parse_rebuild_reason that keeps unparsed content as Unknown.
parse_rebuild_reason_keeps_unknown(input) ==
    LET dirty_start == Find(input, Chars("dirty:")) IN
    IF dirty_start = 0 THEN None
    ELSE LET dirty_content == SkipWhitespace(Drop(input, dirty_start - 1 + 6))
             parsed == parse_dirty_reason_content(dirty_content)
         IN  IF parsed.ok THEN Some(parsed.reason) ELSE Some(Unknown(dirty_content))

\* parse_rebuild_reason that parses the whole line when it has no marker.
parse_rebuild_reason_without_marker(input) ==
    LET dirty_start == Find(input, Chars("dirty:")) IN
    IF dirty_start = 0 THEN ok_reason(parse_dirty_reason_content(SkipWhitespace(input)))
    ELSE ok_reason(parse_dirty_reason_content(
                       SkipWhitespace(Drop(input, dirty_start - 1 + 6))))

\* parse_rebuild_reason that falls back to the text after "stale:".
parse_rebuild_reason_stale_fallback(input) ==
    LET dirty_start == Find(input, Chars("dirty:"))
        stale_start == Find(input, Chars("stale:"))
        start == IF dirty_start # 0 THEN dirty_start ELSE stale_start
    IN  IF start = 0 THEN None
        ELSE ok_reason(parse_dirty_reason_content(
                           SkipWhitespace(Drop(input, start - 1 + 6))))

\* parse_rebuild_reason: Option<RebuildReason>
parse_rebuild_reason(input) ==
    LET dirty_start == Find(input, Chars("dirty:")) IN
    IF dirty_start = 0 THEN None
    ELSE ok_reason(parse_dirty_reason_content(
                       SkipWhitespace(Drop(input, dirty_start - 1 + 6))))

\* extract_package_context
extract_package_context(line) ==
    LET pkg_start == Find(line, Chars("package_id="))
        after_pkg == Drop(line, pkg_start - 1 + 11)
        pkg_end ==
            IF Find(after_pkg, Chars(" target=")) # 0
            THEN Find(after_pkg, Chars(" target=")) - 1
            ELSE IF Find(after_pkg, <<"}">>) # 0 THEN Find(after_pkg, <<"}">>) - 1
            ELSE Len(after_pkg)
        package_id ==
            IF pkg_start = 0 THEN Chars("unknown")
            ELSE Trim(SubSeq(after_pkg, 1, pkg_end))
        target_start == Find(line, Chars("target="))
        after_target == Drop(line, target_start - 1 + 7)
        stripped == Tail(after_target)
        quote_end == Find(stripped, <<"\"">>)
        bare_end ==
            IF FindAny(after_target, {" ", "}", ":"}) # 0
            THEN FindAny(after_target, {" ", "}", ":"}) - 1
            ELSE Len(after_target)
        value == Trim(SubSeq(after_target, 1, bare_end))
        target ==
            IF target_start = 0 THEN None
            ELSE IF after_target # <<>> /\ Head(after_target) = "\""
            THEN (IF quote_end = 0 THEN None ELSE Some(SubSeq(stripped, 1, quote_end - 1)))
            ELSE IF value = <<>> THEN None
            ELSE Some(value)
    IN  PackageTarget(package_id, target)

\* ParsedRebuildEntry::new
ParsedRebuildEntry(package, reason) == [package |-> package, reason |-> reason]

\* parse_rebuild_entry that gives up on a line without package context.
parse_rebuild_entry_needs_context(input) ==
    LET reason == parse_rebuild_reason(input) IN
    IF reason = None \/ Find(input, Chars("package_id=")) = 0 THEN None
    ELSE Some(ParsedRebuildEntry(extract_package_context(input), reason.val))

\* parse_rebuild_entry: Option<ParsedRebuildEntry>
parse_rebuild_entry(input) ==
    LET reason == parse_rebuild_reason(input) IN
    IF reason = None THEN None
    ELSE Some(ParsedRebuildEntry(extract_package_context(input), reason.val))

\* ------------------------------------------------------ parser inputs

\* The longest fingerprint has this many digits; 2^64 has 20.
MaxFingerprintDigits == 21

\* "..." as cargo's Debug output writes a string without escapes.
Quote(text) == <<"\"">> \o text \o <<"\"">>

\* Debug of Option<String>
RenderOption(o) ==
    IF o = None THEN Chars("None") ELSE Chars("Some(") \o Quote(o.val) \o Chars(")")

\* Debug of DirtyReason::EnvVarChanged
RenderEnvVarChanged(name, old_value, new_value) ==
    Chars("EnvVarChanged { name: ") \o Quote(name)
    \o Chars(", old_value: ") \o RenderOption(old_value)
    \o Chars(", new_value: ") \o RenderOption(new_value) \o Chars(" }")

\* Debug of DirtyReason::UnitDependencyInfoChanged; the fingerprints are
\* given as the text written in their place.
RenderUnitDependencyInfoChanged(old_name, old_fingerprint, new_name, new_fingerprint) ==
    Chars("UnitDependencyInfoChanged { old_name: ") \o Quote(old_name)
    \o Chars(", old_fingerprint: ") \o old_fingerprint
    \o Chars(", new_name: ") \o Quote(new_name)
    \o Chars(", new_fingerprint: ") \o new_fingerprint \o Chars(" }")

\* Debug of FileTime
RenderFileTime(seconds, nanos) ==
    Chars("FileTime { seconds: ") \o seconds \o Chars(", nanos: ") \o nanos \o Chars(" }")

\* Debug of FsStatusOutdated(StaleItem(ChangedFile)); the two mtimes are
\* given as the text written in their place.
RenderChangedFile(reference, reference_mtime, stale, stale_mtime) ==
    Chars("FsStatusOutdated(StaleItem(ChangedFile { reference: ") \o Quote(reference)
    \o Chars(", reference_mtime: ") \o reference_mtime
    \o Chars(", stale: ") \o Quote(stale)
    \o Chars(", stale_mtime: ") \o stale_mtime \o Chars(" }))")

\* Debug of FsStatusOutdated(StaleDepFingerprint)
RenderStaleDepFingerprint(name) ==
    Chars("FsStatusOutdated(StaleDepFingerprint { name: ") \o Quote(name) \o Chars(" })")

DirtyMarker == Chars("dirty: ")

\* What precedes the marker on a log line.
PrefixNone == <<>>

PrefixPackageTarget ==
    Chars("0.5s INFO prepare_target{force=false package_id=libz-sys v1.1.23 target=\"build-script-build\"}: cargo::core::compiler::fingerprint:     ")

PrefixPackage ==
    Chars("prepare_target{force=false package_id=serde v1.0.0}: cargo::core::compiler::fingerprint: ")

PrefixStale == Chars("cargo::core::compiler::fingerprint: stale: changed \"build.rs\" ")

PrefixTarget == Chars("fingerprint{target=\"lib\"}:  ")

LogPrefixes == {PrefixNone, PrefixPackageTarget, PrefixPackage, PrefixStale, PrefixTarget}

EnvNames == {Chars("CC"), Chars("RUSTFLAGS")}

EnvValues ==
    {None, Some(Chars("gcc")), Some(Chars("c:/x y")), Some(Chars("--target=x"))}

EnvLine(prefix, name, old_value, new_value) ==
    prefix \o DirtyMarker \o RenderEnvVarChanged(name, old_value, new_value)

EnvLines ==
    {EnvLine(prefix, name, old_value, new_value) :
        prefix \in LogPrefixes, name \in EnvNames,
        old_value \in EnvValues, new_value \in EnvValues}

\* The fingerprint 99...9 of n digits.
Nines(n) == [i \in 1..n |-> "9"]

Fingerprints == {Nines(n) : n \in 1..MaxFingerprintDigits}

\* What a well-formed log never has in a fingerprint's place.
BadFingerprints == {Chars("-17"), Chars("+17"), Chars("\"17\""), Chars("x1f"), Chars("")}

DepLine(prefix, old_fingerprint, new_fingerprint) ==
    prefix \o DirtyMarker
    \o RenderUnitDependencyInfoChanged(Chars("libz-sys"), old_fingerprint,
                                       Chars("libz_sys"), new_fingerprint)

DepLines ==
    {DepLine(prefix, old_fingerprint, new_fingerprint) :
        prefix \in {PrefixNone, PrefixPackage},
        old_fingerprint \in Fingerprints,
        new_fingerprint \in {Chars("456"), Nines(MaxFingerprintDigits)}}

BadDepLines ==
    {DepLine(PrefixPackage, old_fingerprint, Chars("456")) : old_fingerprint \in BadFingerprints}
    \cup {DepLine(PrefixPackage, Chars("123"), new_fingerprint) : new_fingerprint \in BadFingerprints}

GoodFileTimes == {RenderFileTime(Chars("1"), Chars("2")), RenderFileTime(Chars("1700000000"), Chars("0"))}

BadFileTimes ==
    {RenderFileTime(Chars("x"), Chars("2")), RenderFileTime(Chars("1"), Chars("-2")),
     Chars("FileTime { seconds: 1 }"), Chars("FileTime(1, 2)"), Chars("None")}

ReferencePath == Chars("/t/debug/dep-lib")

StalePath == Chars("/src/main.rs")

FileLine(prefix, reference_mtime, stale_mtime) ==
    prefix \o DirtyMarker
    \o RenderChangedFile(ReferencePath, reference_mtime, StalePath, stale_mtime)

FileLines ==
    {FileLine(prefix, reference_mtime, stale_mtime) :
        prefix \in {PrefixNone, PrefixPackageTarget},
        reference_mtime \in GoodFileTimes, stale_mtime \in GoodFileTimes}

BadFileLines ==
    {FileLine(PrefixPackage, reference_mtime, RenderFileTime(Chars("3"), Chars("4"))) :
        reference_mtime \in BadFileTimes}
    \cup {FileLine(PrefixPackage, RenderFileTime(Chars("1"), Chars("2")), stale_mtime) :
        stale_mtime \in BadFileTimes}

StaleDepLines ==
    {prefix \o DirtyMarker \o RenderStaleDepFingerprint(Chars("libz-sys")) :
        prefix \in LogPrefixes}

ConfigLines ==
    {prefix \o DirtyMarker \o Chars("TargetConfigurationChanged") : prefix \in LogPrefixes}

\* One complete rendering of each shape.
CompleteRenderings ==
    {RenderEnvVarChanged(Chars("CC"), Some(Chars("gcc")), None),
     RenderUnitDependencyInfoChanged(Chars("a"), Chars("12"), Chars("a"), Chars("34")),
     RenderChangedFile(Chars("r"), RenderFileTime(Chars("1"), Chars("2")),
                       Chars("s"), RenderFileTime(Chars("3"), Chars("4"))),
     RenderStaleDepFingerprint(Chars("a")),
     Chars("TargetConfigurationChanged")}

\* Every rendering cut short: each proper prefix of a complete rendering.
TruncatedLines ==
    {prefix \o DirtyMarker \o SubSeq(text, 1, k) :
        prefix \in {PrefixNone, PrefixPackage},
        <<text, k>> \in {<<t, n>> \in CompleteRenderings \X (0..200) : n < Len(t)}}


\* Payloads that are no known shape, and markers with no payload.
UnknownShapeLines ==
    {prefix \o text :
        prefix \in {PrefixNone, PrefixPackage},
        text \in {Chars("dirty: ProfileChanged"),
                  Chars("dirty: SomeNewReason { name: \"x\" }"),
                  Chars("dirty: envvarchanged { name: \"CC\", old_value: None, new_value: None }"),
                  Chars("dirty: Unknown(\"x\")"),
                  Chars("dirty: EnvVarChanged { name: \"CC, old_value: None, new_value: None }"),
                  Chars("dirty: EnvVarChanged { name: \"CC\", old_value: None, new_value: None"),
                  Chars("dirty: EnvVarChanged { name: \"CC\", old_value: Some(gcc), new_value: None }"),
                  Chars("dirty: EnvVarChanged { name: \"CC\", new_value: None }"),
                  Chars("dirty:"),
                  Chars("dirty:    ")}}

\* Lines with neither marker.
UnmarkedLines ==
    {<<>>,
     Chars("   Compiling serde v1.0.0"),
     RenderEnvVarChanged(Chars("CC"), None, Some(Chars("gcc"))),
     Chars("TargetConfigurationChanged"),
     PrefixPackage \o Chars("Dirty: TargetConfigurationChanged"),
     PrefixPackage \o Chars("dirty TargetConfigurationChanged"),
     PrefixPackageTarget \o Chars("fresh")}

\* Lines whose only marker is stale:, followed by what would parse after
\* dirty:.
StaleOnlyLines ==
    {prefix \o Chars("stale: ") \o text :
        prefix \in {PrefixNone, PrefixPackage}, text \in CompleteRenderings}

\* One complete rendering of each shape, with the reason it stands for.
RenderedReasons ==
    {<<Chars("TargetConfigurationChanged"), TargetConfigurationChanged>>,
     <<RenderEnvVarChanged(Chars("CC"), Some(Chars("gcc")), None),
       EnvVarChanged(Chars("CC"), Some(Chars("gcc")), None)>>,
     <<RenderUnitDependencyInfoChanged(Chars("libz-sys"), Chars("123"),
                                       Chars("libz_sys"), Chars("456")),
       UnitDependencyInfoChanged(Chars("libz-sys"), Chars("123"), Chars("456"))>>,
     <<RenderStaleDepFingerprint(Chars("libz-sys")),
       UnitDependencyInfoChanged(Chars("libz-sys"), <<>>, <<>>)>>,
     <<RenderChangedFile(ReferencePath, RenderFileTime(Chars("1"), Chars("2")),
                         StalePath, RenderFileTime(Chars("3"), Chars("4"))),
       FileChanged(StalePath)>>}

\* The whitespace between the marker and the rendering.
MarkerGaps == {<<>>, <<" ">>, <<" ", " ", " ">>, <<"\t", " ">>}

\* What follows a complete rendering on its line.
TrailingTexts ==
    {<<>>, Chars("XYZ"), Chars(" }"), Chars(")))"), Chars(" stale: changed"),
     Chars(" dirty: TargetConfigurationChanged"), Chars(" dirty: ProfileChanged")}

TrailingLine(prefix, gap, rendering, trailing) ==
    prefix \o Chars("dirty:") \o gap \o rendering \o trailing

TrailingLines ==
    {TrailingLine(prefix, gap, rr[1], trailing) :
        prefix \in {PrefixNone, PrefixPackage}, gap \in MarkerGaps,
        rr \in RenderedReasons, trailing \in TrailingTexts}

\* What follows the first marker when no shape is complete there.
IncompleteContents ==
    {Chars("ProfileChanged"), <<>>, Chars("EnvVarChanged { name: \"CC\"")}

\* A first marker with no complete shape, then a second marker with one.
LaterMarkerLine(prefix, incomplete, rendering) ==
    prefix \o DirtyMarker \o incomplete \o Chars(" ") \o DirtyMarker \o rendering

LaterMarkerLines ==
    {LaterMarkerLine(prefix, incomplete, rr[1]) :
        prefix \in {PrefixNone, PrefixPackage}, incomplete \in IncompleteContents,
        rr \in RenderedReasons}

\* The lines the parser is applied to.
Lines ==
    EnvLines \cup DepLines \cup BadDepLines \cup FileLines \cup BadFileLines
    \cup StaleDepLines \cup ConfigLines \cup TruncatedLines
    \cup UnknownShapeLines \cup UnmarkedLines \cup StaleOnlyLines
    \cup TrailingLines \cup LaterMarkerLines

\* A fresh graph and one line handed to the parser.
InitParser ==
    /\ nodes = <<>>
    /\ dependency_causes = EmptyMap
    /\ package_to_node = EmptyMap
    /\ seen_entries = {}
    /\ \E line \in Lines : last = [op |-> "line", arg |-> line, ret |-> None]
    /\ driver = NoDriver

\* parse_rebuild_reason(line)
ParseRebuildReason ==
    /\ last.op = "line"
    /\ last' = [op |-> "parse_rebuild_reason", arg |-> last.arg,
                ret |-> parse_rebuild_reason(last.arg)]
    /\ UNCHANGED <<graph, driver>>

\* parse_rebuild_entry(line)
ParseRebuildEntry ==
    /\ last.op = "line"
    /\ last' = [op |-> "parse_rebuild_entry", arg |-> last.arg,
                ret |-> parse_rebuild_entry(last.arg)]
    /\ UNCHANGED <<graph, driver>>

NextParser == ParseRebuildReason \/ ParseRebuildEntry

SpecParser == InitParser /\ [][NextParser]_vars

\* ------------------------------------------------------ parser claims

ReasonParsed == last.op = "parse_rebuild_reason"

EntryParsed == last.op = "parse_rebuild_entry"

\* C11: a well-formed EnvVarChanged rendering after the marker, with or
\* without a log prefix and for all four present/absent combinations of
\* old_value and new_value, parses to exactly EnvVarChanged{name, old_value,
\* new_value} with the quoted contents verbatim (':' and '/' included).
C11_EnvVarChangedParsedExactly ==
    \A prefix \in LogPrefixes, name \in EnvNames, old_value \in EnvValues, new_value \in EnvValues :
        (ReasonParsed /\ last.arg = EnvLine(prefix, name, old_value, new_value))
            => last.ret = Some(EnvVarChanged(name, old_value, new_value))

\* A prefixed line whose old value holds ':' and '/' and whose new value is
\* absent has been parsed to that reason.
C11_Witness ==
    /\ ReasonParsed
    /\ last.arg = EnvLine(PrefixPackageTarget, Chars("CC"), Some(Chars("c:/x y")), None)
    /\ last.ret = Some(EnvVarChanged(Chars("CC"), Some(Chars("c:/x y")), None))


\* Lines on which no known shape is complete after the marker.
MalformedLines == TruncatedLines \cup UnknownShapeLines \cup BadDepLines \cup BadFileLines

\* A reason of one of the parsed shapes with every field filled.
CompleteReason(reason) ==
    \/ /\ reason.kind = "EnvVarChanged"
       /\ DOMAIN reason = {"kind", "name", "old_value", "new_value"}
       /\ reason.old_value.tag \in {"None", "Some"}
       /\ reason.new_value.tag \in {"None", "Some"}
    \/ /\ reason.kind = "UnitDependencyInfoChanged"
       /\ DOMAIN reason = {"kind", "name", "old_fingerprint", "new_fingerprint", "context"}
       /\ reason.name # <<>>
    \/ /\ reason.kind = "FileChanged"
       /\ DOMAIN reason = {"kind", "path"}
    \/ reason = TargetConfigurationChanged

\* C12: parse_rebuild_reason returns for every line; when no known shape is
\* complete after the marker (unknown name, missing brace or quote, cut
\* fields, marker without payload, empty line) it returns None, and what it
\* returns otherwise is a complete reason of a parsed shape, never Unknown.
C12_MalformedIsNone ==
    ReasonParsed =>
        /\ last.ret.tag \in {"None", "Some"}
        /\ (last.arg \in MalformedLines \cup {<<>>}) => last.ret = None
        /\ last.ret # None => (last.ret.val.kind # "Unknown" /\ CompleteReason(last.ret.val))

\* A line whose rendering lacks the closing brace was parsed to None.
C12_Witness ==
    /\ ReasonParsed
    /\ last.arg = PrefixPackage
           \o Chars("dirty: EnvVarChanged { name: \"CC\", old_value: None, new_value: None")
    /\ last.ret = None

\* C14: a well-formed ChangedFile line parses to FileChanged whose path is
\* the quoted stale value, not the reference value, with nothing of the two
\* FileTime structures kept; with either FileTime malformed the result is
\* None.
C14_ChangedFileIsStalePath ==
    ReasonParsed =>
        /\ last.arg \in FileLines => last.ret = Some(FileChanged(StalePath))
        /\ last.arg \in BadFileLines => last.ret = None

\* A well-formed ChangedFile line was parsed to the stale path, which
\* differs from the reference path.
C14_Witness ==
    /\ ReasonParsed
    /\ last.arg \in FileLines
    /\ last.ret # None
    /\ last.ret.val.path = StalePath
    /\ StalePath # ReferencePath

\* C15: a well-formed UnitDependencyInfoChanged line parses to
\* UnitDependencyInfoChanged named by old_name (new_name dropped), with both
\* fingerprints kept digit for digit however long, and no context; a
\* fingerprint field that does not start with a decimal digit gives None.
C15_FingerprintsKeptAsText ==
    /\ \A prefix \in {PrefixNone, PrefixPackage}, old_fingerprint \in Fingerprints,
          new_fingerprint \in {Chars("456"), Nines(MaxFingerprintDigits)} :
            (ReasonParsed /\ last.arg = DepLine(prefix, old_fingerprint, new_fingerprint))
                => /\ last.ret # None
                   /\ last.ret.val.kind = "UnitDependencyInfoChanged"
                   /\ last.ret.val.name = Chars("libz-sys")
                   /\ last.ret.val.old_fingerprint = old_fingerprint
                   /\ last.ret.val.new_fingerprint = new_fingerprint
                   /\ last.ret.val.context = None
    /\ (ReasonParsed /\ last.arg \in BadDepLines) => last.ret = None

\* A line whose two fingerprints exceed 64 bits was parsed with both kept
\* in full.
C15_Witness ==
    /\ ReasonParsed
    /\ MaxFingerprintDigits > 20
    /\ last.arg = DepLine(PrefixPackage, Nines(MaxFingerprintDigits), Nines(MaxFingerprintDigits))
    /\ last.ret # None
    /\ Len(last.ret.val.old_fingerprint) = MaxFingerprintDigits
    /\ Len(last.ret.val.new_fingerprint) = MaxFingerprintDigits

\* C17: a line that parses to a reason and has no package_id= gets the
\* package "unknown" with no target, whatever else it contains.
C17_UnknownPackageHasNoTarget ==
    (EntryParsed /\ last.ret # None /\ ~Contains(last.arg, Chars("package_id=")))
        => last.ret.val.package = PackageTarget(Chars("unknown"), None)

\* The package context written at the start of the line.
ContextOf(line) ==
    IF StartsWith(line, PrefixPackageTarget)
    THEN Some(PackageTarget(Chars("libz-sys v1.1.23"), Some(Chars("build-script-build"))))
    ELSE IF StartsWith(line, PrefixPackage) /\ ~Contains(line, Chars("target="))
    THEN Some(PackageTarget(Chars("serde v1.0.0"), None))
    ELSE None

\* C18: parse_rebuild_entry returns an entry exactly when
\* parse_rebuild_reason returns a reason for the line, the entry carries
\* that reason, the span package_id=<id> target="<t>"} gives package <id>
\* with its version and target <t>, and package_id=<id>} on a line without
\* target= gives package <id> and no target.
C18_EntryIffReason ==
    EntryParsed =>
        /\ last.ret = None <=> parse_rebuild_reason(last.arg) = None
        /\ last.ret # None =>
            /\ last.ret.val.reason = parse_rebuild_reason(last.arg).val
            /\ ContextOf(last.arg) # None => last.ret.val.package = ContextOf(last.arg).val

\* An entry was returned for a line with package_id=serde v1.0.0} and no
\* target=.
C18_Witness ==
    /\ EntryParsed
    /\ last.ret # None
    /\ ContextOf(last.arg) = Some(PackageTarget(Chars("serde v1.0.0"), None))
    /\ last.ret.val.package.target = None
    /\ last.ret.val.package.package_id = Chars("serde v1.0.0")


\* ============================================================== driver
\* (src/src/dirty_analyzer.rs, src/src/lib.rs)

\* The longest diagnostic stream of a run.
MaxLines == 2

RECURSIVE split_whitespace(_)
\* str::split_whitespace().collect()
split_whitespace(s) ==
    LET t == SkipWhitespace(s) IN
    IF t = <<>> THEN <<>>
    ELSE <<TakeToken(t)>> \o split_whitespace(Drop(t, Len(TakeToken(t))))

\* Config::cargo_command
cargo_command(self) ==
    IF self.cargo_args = <<>> THEN self.command
    ELSE self.command \o <<" ">> \o JoinWith(self.cargo_args, " ")

\* Result<(), AnalyzerError>
Ok == [tag |-> "Ok"]

Err(e) == [tag |-> "Err", error |-> e]

\* AnalyzerError
CargoTomlNotFound == [kind |-> "CargoTomlNotFound"]

EmptyCommand == [kind |-> "EmptyCommand"]

\* impl From<io::Error> for AnalyzerError: the error is kept inside.
Io(source) == [kind |-> "Io", source |-> source]

\* The process dies of the stack overflow of root_cause_chains.
Aborted == [tag |-> "Aborted"]

RECURSIVE Decimal(_)
\* Display of usize
Decimal(n) ==
    IF n < 10 THEN SubSeq(Chars("0123456789"), n + 1, n + 1)
    ELSE Decimal(n \div 10) \o SubSeq(Chars("0123456789"), (n % 10) + 1, (n % 10) + 1)

\* impl Display for PackageTarget
package_target_fmt(package) ==
    LET package_name ==
            IF SkipWhitespace(package.package_id) = <<>> THEN package.package_id
            ELSE TakeToken(SkipWhitespace(package.package_id))
    IN  IF package.target = None THEN package_name
        ELSE package_name \o Chars(" [") \o package.target.val \o Chars("]")

\* RebuildGraph::to_json: the serialization of root_cause_chains(); an
\* empty Vec is written "[]", any other as the array of its chains.
to_json(ns) ==
    LET r == root_cause_chains(ns) IN
    [overflow |-> r.overflow,
     text |-> IF r.chains = <<>> THEN Chars("[]") ELSE [array |-> r.chains]]

\* The human-readable branch that prints the count for zero root causes too.
human_report_always_counts(ns) ==
    LET roots == root_causes(ns) IN
    <<Chars("\n") \o Decimal(Len(roots)) \o Chars(" root cause")
        \o (IF Len(roots) = 1 THEN <<>> ELSE Chars("s")) \o Chars(":")>>
    \o [i \in 1..Len(roots) |->
           Chars("  ") \o package_target_fmt(roots[i].package)
           \o Chars(" ") \o display_fmt(roots[i].reason)]

\* The human-readable branch that tests the graph, not its root causes, for
\* emptiness.
human_report_graph_empty(ns) ==
    LET roots == root_causes(ns) IN
    IF is_empty(ns) THEN <<Chars("No rebuild triggers detected.")>>
    ELSE <<Chars("\n") \o Decimal(Len(roots)) \o Chars(" root cause")
             \o (IF Len(roots) = 1 THEN <<>> ELSE Chars("s")) \o Chars(":")>>
         \o [i \in 1..Len(roots) |->
                Chars("  ") \o package_target_fmt(roots[i].package)
                \o Chars(" ") \o display_fmt(roots[i].reason)]

\* The println! calls of the human-readable branch of analyze_logs.
human_report(ns) ==
    LET roots == root_causes(ns) IN
    IF is_empty(roots) THEN <<Chars("No rebuild triggers detected.")>>
    ELSE <<Chars("\n") \o Decimal(Len(roots)) \o Chars(" root cause")
             \o (IF Len(roots) = 1 THEN <<>> ELSE Chars("s")) \o Chars(":")>>
         \o [i \in 1..Len(roots) |->
                Chars("  ") \o package_target_fmt(roots[i].package)
                \o Chars(" ") \o display_fmt(roots[i].reason)]

\* run() that splits the command before it looks for Cargo.toml.
run_command_first(self) ==
    IF split_whitespace(cargo_command(self)) = <<>>
    THEN /\ driver' = [driver EXCEPT !.pc = "done", !.result = Some(Err(EmptyCommand))]
         /\ UNCHANGED <<graph, last>>
    ELSE IF ~self.cargo_toml_exists
    THEN /\ driver' = [driver EXCEPT !.pc = "done", !.result = Some(Err(CargoTomlNotFound))]
         /\ UNCHANGED <<graph, last>>
    ELSE IF driver.spawn_error # None
    THEN /\ driver' = [driver EXCEPT !.pc = "done",
                                     !.result = Some(Err(Io(driver.spawn_error.val)))]
         /\ UNCHANGED <<graph, last>>
    ELSE /\ driver' = [driver EXCEPT !.pc = "reading", !.spawned = TRUE]
         /\ nodes' = <<>>
         /\ dependency_causes' = EmptyMap
         /\ package_to_node' = EmptyMap
         /\ seen_entries' = {}
         /\ last' = [op |-> "new", arg |-> None, ret |-> None]

\* Config::run up to the first read of the stream: Cargo.toml, the command
\* split, the spawn, and RebuildGraph::new() at the head of analyze_logs.
run(self) ==
    IF ~self.cargo_toml_exists
    THEN /\ driver' = [driver EXCEPT !.pc = "done", !.result = Some(Err(CargoTomlNotFound))]
         /\ UNCHANGED <<graph, last>>
    ELSE IF split_whitespace(cargo_command(self)) = <<>>
    THEN /\ driver' = [driver EXCEPT !.pc = "done", !.result = Some(Err(EmptyCommand))]
         /\ UNCHANGED <<graph, last>>
    ELSE IF driver.spawn_error # None
    THEN /\ driver' = [driver EXCEPT !.pc = "done",
                                     !.result = Some(Err(Io(driver.spawn_error.val)))]
         /\ UNCHANGED <<graph, last>>
    ELSE /\ driver' = [driver EXCEPT !.pc = "reading", !.spawned = TRUE]
         /\ nodes' = <<>>
         /\ dependency_causes' = EmptyMap
         /\ package_to_node' = EmptyMap
         /\ seen_entries' = {}
         /\ last' = [op |-> "new", arg |-> None, ret |-> None]

\* The line filter of analyze_logs.
is_rebuild_trigger(line) ==
    /\ Contains(line, Chars("fingerprint"))
    /\ Contains(line, Chars("dirty:")) \/ Contains(line, Chars("stale:"))

\* The loop body where a line that does not parse ends the run.
analyze_line_stops_on_unparsed(item) ==
    IF item.tag = "Err"
    THEN /\ driver' = [driver EXCEPT !.pc = "done", !.stream = Tail(@),
                                     !.result = Some(Err(Io(item.error)))]
         /\ last' = [op |-> "read_error", arg |-> item.error, ret |-> None]
         /\ UNCHANGED graph
    ELSE \E line \in {item.line} :
         \E trigger \in {is_rebuild_trigger(line)} :
         \E entry \in {IF trigger THEN parse_rebuild_entry(line) ELSE None} :
             IF entry # None
             THEN /\ driver' = [driver EXCEPT !.stream = Tail(@), !.line = Some(line),
                                              !.lines_read = @ + 1, !.parse_calls = @ + 1]
                  /\ add_node(RebuildNode(entry.val.package, entry.val.reason))
             ELSE /\ driver' = [driver EXCEPT !.pc = "done", !.stream = Tail(@),
                                              !.line = Some(line), !.lines_read = @ + 1,
                                              !.result = Some(Err(Io("InvalidData")))]
                  /\ last' = [op |-> "skip_line", arg |-> line, ret |-> None]
                  /\ UNCHANGED graph

\* One iteration of `for line in reader.lines()` in analyze_logs: the item
\* read is an error, which ends the run, or a line; `trigger` is the test of
\* the first `if` and `entry` what parse_rebuild_entry returns inside it.
analyze_line(item) ==
    IF item.tag = "Err"
    THEN /\ driver' = [driver EXCEPT !.pc = "done", !.stream = Tail(@),
                                     !.result = Some(Err(Io(item.error)))]
         /\ last' = [op |-> "read_error", arg |-> item.error, ret |-> None]
         /\ UNCHANGED graph
    ELSE \E line \in {item.line} :
         \E trigger \in {is_rebuild_trigger(line)} :
         \E entry \in {IF trigger THEN parse_rebuild_entry(line) ELSE None} :
             IF entry # None
             THEN /\ driver' = [driver EXCEPT !.stream = Tail(@), !.line = Some(line),
                                              !.lines_read = @ + 1, !.parse_calls = @ + 1]
                  /\ add_node(RebuildNode(entry.val.package, entry.val.reason))
             ELSE /\ driver' = [driver EXCEPT !.stream = Tail(@), !.line = Some(line),
                                              !.lines_read = @ + 1,
                                              !.parse_calls = IF trigger THEN @ + 1 ELSE @]
                  /\ last' = [op |-> "skip_line", arg |-> line, ret |-> None]
                  /\ UNCHANGED graph

\* The end of analyze_logs and of run(): the report, then Ok(()).
report(self) ==
    IF self.json
    THEN LET json == to_json(nodes) IN
         /\ driver' = IF json.overflow
                      THEN [driver EXCEPT !.pc = "done", !.result = Some(Aborted)]
                      ELSE [driver EXCEPT !.pc = "done", !.stdout = <<json.text>>,
                                          !.result = Some(Ok)]
         /\ last' = [op |-> "to_json", arg |-> None, ret |-> json]
         /\ UNCHANGED graph
    ELSE /\ driver' = [driver EXCEPT !.pc = "done", !.stdout = human_report(nodes),
                                     !.result = Some(Ok)]
         /\ last' = [op |-> "root_causes", arg |-> None, ret |-> root_causes(nodes)]
         /\ UNCHANGED graph

\* ------------------------------------------------------ driver inputs
Config(cargo_toml_exists, command, cargo_args, json) ==
    [cargo_toml_exists |-> cargo_toml_exists, command |-> command,
     cargo_args |-> cargo_args, json |-> json]

\* The command and the extra arguments of the command line.
CommandLines ==
    {<<Chars("check"), <<>>>>, <<Chars("build"), <<Chars("--release")>>>>,
     <<<<>>, <<>>>>, <<Chars("  "), <<>>>>, <<<<>>, <<<<>>>>>>, <<<<>>, <<Chars("--release")>>>>}

Configs ==
    {Config(cargo_toml_exists, cl[1], cl[2], json) :
        cargo_toml_exists \in BOOLEAN, cl \in CommandLines, json \in BOOLEAN}

FingerprintTarget == Chars("cargo::core::compiler::fingerprint: ")

EnvTriggerLine ==
    EnvLine(PrefixPackageTarget, Chars("CC"), Some(Chars("gcc")), None)

CascadeLine == DepLine(PrefixPackage, Chars("123"), Chars("456"))

\* Both markers, a complete rendering after each.
StaleThenDirtyLine ==
    FingerprintTarget \o Chars("stale: ")
    \o RenderEnvVarChanged(Chars("CC"), None, Some(Chars("gcc")))
    \o Chars(" ") \o DirtyMarker \o Chars("TargetConfigurationChanged")

DirtyThenStaleLine ==
    PrefixPackage \o DirtyMarker \o RenderStaleDepFingerprint(Chars("libz-sys"))
    \o Chars(" stale: TargetConfigurationChanged")

StaleOnlyLine ==
    FingerprintTarget \o Chars("stale: ")
    \o RenderEnvVarChanged(Chars("CC"), None, Some(Chars("gcc")))

UnparseableLine == PrefixPackage \o Chars("dirty: ProfileChanged")

\* A fingerprint line that starts with a complete rendering and has no marker.
UnmarkedLine ==
    RenderEnvVarChanged(Chars("CC"), None, Some(Chars("gcc")))
    \o Chars(" at cargo::core::compiler::fingerprint")

CompilingLine == Chars("   Compiling serde v1.0.0")

DriverLines ==
    {EnvTriggerLine, CascadeLine, StaleThenDirtyLine, DirtyThenStaleLine,
     StaleOnlyLine, UnparseableLine, UnmarkedLine, CompilingLine}

\* What reader.lines() yields: a line, or the error of a failed read.
StreamItems ==
    {[tag |-> "Ok", line |-> line] : line \in DriverLines}
    \cup {[tag |-> "Err", error |-> "InvalidData"]}

Streams == UNION {[1..n -> StreamItems] : n \in 0..MaxLines}

\* --------------------------------------------------- driver specification
InitDriver ==
    /\ nodes = <<>>
    /\ dependency_causes = EmptyMap
    /\ package_to_node = EmptyMap
    /\ seen_entries = {}
    /\ last = [op |-> "new", arg |-> None, ret |-> None]
    /\ \E self \in Configs, stream \in Streams, spawn_error \in {None, Some("NotFound")} :
        driver = [pc |-> "start", config |-> self, spawn_error |-> spawn_error,
                  stream |-> stream, line |-> None, spawned |-> FALSE,
                  lines_read |-> 0, parse_calls |-> 0, stdout |-> <<>>, result |-> None]

\* run() is called.
Run == driver.pc = "start" /\ run(driver.config)

\* The reader yields its next item.
AnalyzeLine ==
    /\ driver.pc = "reading"
    /\ driver.stream # <<>>
    /\ analyze_line(Head(driver.stream))

\* A report that does not wait for the end of the stream.
Report_mid_stream ==
    /\ driver.pc = "reading"
    /\ report(driver.config)

\* The stream has ended.
Report ==
    /\ driver.pc = "reading"
    /\ driver.stream = <<>>
    /\ report(driver.config)

NextDriver == Run \/ AnalyzeLine \/ Report

SpecDriver == InitDriver /\ [][NextDriver]_vars


\* ------------------------------------------------------- driver claims

\* The loop is about to handle a line that was read.
ReadsLine ==
    /\ driver.pc = "reading"
    /\ driver.stream # <<>>
    /\ Head(driver.stream).tag = "Ok"

\* The read of the next line fails.
ReadFails ==
    /\ driver.pc = "reading"
    /\ driver.stream # <<>>
    /\ Head(driver.stream).tag = "Err"

CurrentLine == Head(driver.stream).line

HasDirty(line) == Contains(line, Chars("dirty:"))

HasStale(line) == Contains(line, Chars("stale:"))

\* C13: for a line that holds neither dirty: nor stale:, parse_rebuild_reason
\* and parse_rebuild_entry both return None and the driver adds no node.
C13_UnmarkedLineAddsNoNode ==
    [][(ReadsLine /\ ~HasDirty(CurrentLine) /\ ~HasStale(CurrentLine))
        => /\ parse_rebuild_reason(CurrentLine) = None
           /\ parse_rebuild_entry(CurrentLine) = None
           /\ UNCHANGED graph]_vars

\* The driver has passed over a fingerprint line that starts with a complete
\* rendering but holds neither marker.
C13_Witness ==
    /\ driver.pc = "reading"
    /\ driver.line = Some(UnmarkedLine)
    /\ last.op = "skip_line"
    /\ nodes = <<>>

\* C16: stale: ranks below dirty:. A line with both markers gives only the
\* reason rendered after dirty:, a line with stale: and no dirty: gives no
\* reason, and a line adds at most one node, never one read from stale:
\* content.
C16_StaleBelowDirty ==
    [][ReadsLine =>
        /\ Len(nodes') <= Len(nodes) + 1
        /\ (HasStale(CurrentLine) /\ ~HasDirty(CurrentLine))
            => (parse_rebuild_reason(CurrentLine) = None /\ UNCHANGED graph)
        /\ CurrentLine = StaleThenDirtyLine
            => parse_rebuild_reason(CurrentLine) = Some(TargetConfigurationChanged)
        /\ CurrentLine = DirtyThenStaleLine
            => parse_rebuild_reason(CurrentLine)
                   = Some(UnitDependencyInfoChanged(Chars("libz-sys"), <<>>, <<>>))
        /\ (HasStale(CurrentLine) /\ HasDirty(CurrentLine) /\ Len(nodes') = Len(nodes) + 1)
            => nodes'[Len(nodes')].reason = parse_rebuild_reason(CurrentLine).val]_vars

\* A line with an EnvVarChanged rendering after stale: and
\* TargetConfigurationChanged after dirty: has added its one node, with the
\* reason after dirty:.
C16_Witness ==
    /\ driver.line = Some(StaleThenDirtyLine)
    /\ driver.lines_read = 1
    /\ Len(nodes) = 1
    /\ nodes[1].reason = TargetConfigurationChanged

\* C19: run() fails with CargoTomlNotFound when Cargo.toml is missing, and
\* with EmptyCommand when Cargo.toml is there and the command string
\* (command plus extra arguments) is empty; in both cases nothing was
\* spawned, no line was read or parsed and nothing was printed.
C19_PreflightErrors ==
    driver.pc = "done" =>
        /\ ~driver.config.cargo_toml_exists => driver.result = Some(Err(CargoTomlNotFound))
        /\ (driver.config.cargo_toml_exists /\ cargo_command(driver.config) = <<>>)
            => driver.result = Some(Err(EmptyCommand))
        /\ driver.result \in {Some(Err(CargoTomlNotFound)), Some(Err(EmptyCommand))}
            => /\ ~driver.spawned
               /\ driver.lines_read = 0
               /\ driver.parse_calls = 0
               /\ driver.stdout = <<>>
               /\ nodes = <<>>

\* A run with Cargo.toml, an empty command and lines waiting has ended with
\* EmptyCommand.
C19_Witness ==
    /\ driver.pc = "done"
    /\ driver.config.cargo_toml_exists
    /\ cargo_command(driver.config) = <<>>
    /\ driver.stream # <<>>
    /\ driver.result = Some(Err(EmptyCommand))

\* C20: a line that does not parse leaves the graph as it is and the loop
\* goes on to the next line; a failed read ends the run with the I/O error
\* kept inside AnalyzerError::Io and nothing is printed, neither JSON nor
\* text.
C20_SkipLineAbortOnReadError ==
    [][/\ (ReadsLine /\ parse_rebuild_entry(CurrentLine) = None)
            => /\ UNCHANGED graph
               /\ driver'.pc = "reading"
               /\ driver'.result = None
               /\ driver'.stream = Tail(driver.stream)
       /\ ReadFails
            => /\ driver'.pc = "done"
               /\ driver'.result = Some(Err(Io(Head(driver.stream).error)))
               /\ driver'.stdout = <<>>
               /\ UNCHANGED graph]_vars

\* Two lines went to the parser; the first gave nothing and the second was
\* stored as the first node.
C20_Witness ==
    /\ driver.pc = "reading"
    /\ driver.parse_calls = 2
    /\ driver.lines_read = 2
    /\ last.op = "add_node"
    /\ last.ret = Some(0)
    /\ Len(nodes) = 1

\* ------------------------------------------------------------- reports
\* The run ended with a report: the stream was read to its end.
Reported == driver.pc = "done" /\ driver.result = Some(Ok)

\* The run was started on a stream that held nothing.
EmptyStreamRead ==
    /\ driver.pc = "done"
    /\ driver.spawned
    /\ driver.lines_read = 0
    /\ last.op # "read_error"

NoTriggersLine == Chars("No rebuild triggers detected.")

\* The header of the human-readable form for n root causes, 1 <= n <= 9.
CountHeader(n) ==
    <<"\n", <<"1", "2", "3", "4", "5", "6", "7", "8", "9">>[n]>>
    \o (IF n = 1 THEN Chars(" root cause:") ELSE Chars(" root causes:"))

\* C21: an empty log stream leaves the graph empty, prints [] in JSON form
\* and 'No rebuild triggers detected.' in human-readable form, and the run
\* ends Ok; with at least one root cause the human-readable form is the
\* count of root causes followed by exactly one line per root cause, in
\* order, each naming the root cause's package.
C21_EmptyAndCountedReports ==
    /\ EmptyStreamRead =>
          /\ is_empty(nodes)
          /\ nodes = <<>>
          /\ driver.result = Some(Ok)
          /\ driver.stdout = IF driver.config.json THEN <<Chars("[]")>>
                             ELSE <<NoTriggersLine>>
    /\ (Reported /\ ~driver.config.json /\ RootPositions # {}) =>
          /\ Len(driver.stdout) = 1 + Cardinality(RootPositions)
          /\ driver.stdout[1] = CountHeader(Cardinality(RootPositions))
          /\ \A k \in 1..Cardinality(RootPositions) :
                StartsWith(driver.stdout[k + 1],
                           Chars("  ") \o FirstToken(KthRoot(k).package.package_id))

\* C21 witness: a human-readable report of two root causes was printed.
C21_Witness ==
    /\ Reported
    /\ ~driver.config.json
    /\ Cardinality(RootPositions) = 2
    /\ Len(driver.stdout) = 3

\* An empty stream was reported in both forms (the other half of C21).
EmptyStreamReported == EmptyStreamRead /\ driver.stdout # <<>>

\* ------------------------------------------------- chains of several roots
\* The chain of the root cause stored at position r, chains being in the
\* order of the stored root causes.
ChainOf(chains, r) == chains[Cardinality({j \in RootPositions : j <= r})]

\* Every cascade that reaches two distinct root causes is in the affected
\* list of both chains, and two root causes of one normalized package have
\* identical affected lists.
SharedCascadesInBothChains(chains) ==
    /\ Len(chains) = Cardinality(RootPositions)
    /\ \A r1, r2 \in RootPositions :
          r1 # r2 =>
            /\ \A i \in 1..Len(nodes) :
                  (/\ ReachesRoot(nodes, nodes[i], nodes[r1])
                   /\ ReachesRoot(nodes, nodes[i], nodes[r2]))
                    => (/\ Occurs(nodes[i], ChainOf(chains, r1).affected_packages)
                        /\ Occurs(nodes[i], ChainOf(chains, r2).affected_packages))
            /\ SameNormalizedPackage(nodes[r1], nodes[r2])
                  => ChainOf(chains, r1).affected_packages
                        = ChainOf(chains, r2).affected_packages

RECURSIVE SumTotalRebuilds(_)
SumTotalRebuilds(chains) ==
    IF chains = <<>> THEN 0
    ELSE total_rebuilds(Head(chains)) + SumTotalRebuilds(Tail(chains))

\* C22: a cascade node reachable from two distinct root-cause nodes appears
\* in the affected_packages of both chains of root_cause_chains(), and two
\* root-cause nodes of one normalized package get identical
\* affected_packages lists.
C22_SharedCascadeInBothChains ==
    last.op = "root_cause_chains" =>
        /\ ~last.ret.overflow
        /\ SharedCascadesInBothChains(last.ret.chains)

\* What holds of the code for C22: whenever root_cause_chains() returns,
\* shared cascades are in both chains and same-package roots have equal
\* affected lists.
ReturnedChainsShareCascades ==
    ChainsReturned => SharedCascadesInBothChains(last.ret.chains)

\* The last clause of C22 happens: returned chains whose total_rebuilds sum
\* exceeds the number of stored nodes.
SumExceedsNodeCount ==
    /\ ChainsReturned
    /\ SumTotalRebuilds(last.ret.chains) > Len(nodes)

\* Two root causes and a cascade that reaches both are stored, and
\* root_cause_chains() overflowed on a self-dependent cascade.
SharedCascadeCrashed ==
    /\ ChainsCrashed
    /\ \E r1, r2 \in RootPositions, i \in 1..Len(nodes) :
          /\ r1 # r2
          /\ ReachesRoot(nodes, nodes[i], nodes[r1])
          /\ ReachesRoot(nodes, nodes[i], nodes[r2])

\* ------------------------------------------------- populate, then query
\* The graph has been queried: the report read root_causes() or to_json().
Queried == last.op \in {"root_causes", "to_json"}

\* C23: within one run of the driver every add_node call happens before
\* the first query, the first query happens only after the line stream has
\* ended, no add_node call (nor any other step) follows a query, and nodes
\* are added in stream order: the only change of the node sequence is the
\* append of the node parsed from the line just read.
C23_PopulateThenQuery ==
    [][/\ ~Queried
       /\ Queried' => (driver.stream = <<>> /\ nodes' = nodes)
       /\ last'.op = "add_node" =>
             /\ ReadsLine
             /\ \E entry \in {parse_rebuild_entry(CurrentLine)} :
                   /\ entry # None
                   /\ last'.arg = RebuildNode(entry.val.package, entry.val.reason)
             /\ nodes' \in {nodes, Append(nodes, last'.arg)}
       /\ nodes' # nodes => last'.op = "add_node"]_vars

\* C23 witness: the graph was queried after two lines of the stream had
\* each added a node.
C23_Witness ==
    /\ Queried
    /\ driver.lines_read = 2
    /\ Len(nodes) = 2
    /\ driver.stream = <<>>

\* ================================================ stale dependency lines
\* (src/src/fingerprint_parser.rs, src/src/dirty_analyzer.rs)

\* The longest diagnostic stream of a run on stale-dependency lines.
MaxStaleDepLines == 3

PrefixApp ==
    Chars("prepare_target{force=false package_id=app v0.1.0}: cargo::core::compiler::fingerprint: ")

\* serde is stale because of its dependency libz-sys.
StaleDepLine == PrefixPackage \o DirtyMarker \o RenderStaleDepFingerprint(Chars("libz-sys"))

\* The binary of app is stale because of the library of app.
SelfStaleDepLine == PrefixApp \o DirtyMarker \o RenderStaleDepFingerprint(Chars("app"))

ChangedFileLine ==
    FileLine(PrefixApp, RenderFileTime(Chars("1"), Chars("2")),
             RenderFileTime(Chars("3"), Chars("4")))

\* A root cause of libz-sys, the two lines of serde that name libz-sys, a
\* self-dependency and a changed file.
StaleDepRunLines ==
    {EnvTriggerLine, StaleDepLine, CascadeLine, SelfStaleDepLine, ChangedFileLine}

StaleDepStreams ==
    UNION {[1..n -> {[tag |-> "Ok", line |-> line] : line \in StaleDepRunLines}] :
              n \in 0..MaxStaleDepLines}

\* A run of `cargo check` in a project directory, in either output form.
InitStaleDep ==
    /\ nodes = <<>>
    /\ dependency_causes = EmptyMap
    /\ package_to_node = EmptyMap
    /\ seen_entries = {}
    /\ last = [op |-> "new", arg |-> None, ret |-> None]
    /\ \E json \in BOOLEAN, stream \in StaleDepStreams :
        driver = [pc |-> "start", config |-> Config(TRUE, Chars("check"), <<>>, json),
                  spawn_error |-> None, stream |-> stream, line |-> None,
                  spawned |-> FALSE, lines_read |-> 0, parse_calls |-> 0,
                  stdout |-> <<>>, result |-> None]

SpecStaleDep == InitStaleDep /\ [][NextDriver]_vars

\* ------------------------------------------------- stale dependency claims
\* What parse_rebuild_reason hands to the shape parsers for a marked line.
ContentAfterMarker(line) ==
    SkipWhitespace(Drop(line, Find(line, Chars("dirty:")) - 1 + 6))

\* node is a cascade of package serde that names libz-sys.
SerdeOnLibz(node) ==
    /\ IsCascade(node)
    /\ FirstToken(node.package.package_id) = Chars("serde")
    /\ node.reason.name = Chars("libz-sys")

\* The node a StaleDepFingerprint line adds is a cascade with empty
\* fingerprints, one node is stored for the two lines of serde that name
\* libz-sys, and no content is both a StaleDepFingerprint and a ChangedFile.
StaleDepParsedAndDeduplicated ==
    /\ (last.op = "add_node" /\ driver.line = Some(StaleDepLine)) =>
          /\ last.arg = RebuildNode(PackageTarget(Chars("serde v1.0.0"), None),
                                    UnitDependencyInfoChanged(Chars("libz-sys"), <<>>, <<>>))
          /\ ~is_root_cause(last.arg)
    /\ Cardinality({i \in 1..Len(nodes) : SerdeOnLibz(nodes[i])}) <= 1
    /\ ReadsLine =>
          \E content \in {ContentAfterMarker(CurrentLine)} :
              ~(/\ parse_fs_status_outdated_stale_dep(content).ok
                /\ parse_fs_status_outdated_changed_file(content).ok)

\* In the chains of the JSON report every stored cascade of serde on
\* libz-sys is in the chain of every root cause of libz-sys.
StaleDepAttributed(chains) ==
    \A r \in RootPositions, i \in 1..Len(nodes) :
        (PackageIs(nodes[r], Chars("libz-sys")) /\ SerdeOnLibz(nodes[i])) =>
            /\ Len(chains) = Cardinality(RootPositions)
            /\ Occurs(nodes[i], ChainOf(chains, r).affected_packages)

\* C24: a 'dirty: FsStatusOutdated(StaleDepFingerprint { name: "D" })' line
\* parses to UnitDependencyInfoChanged naming D with empty fingerprints,
\* its node is a cascade, never a root cause, it is attributed to the chain
\* of a root cause for package D, it shares its dedup key with a
\* UnitDependencyInfoChanged line naming D for the same package, and the
\* StaleDepFingerprint and ChangedFile shapes never both match one input.
C24_StaleDepIsCascadeOfRoot ==
    /\ StaleDepParsedAndDeduplicated
    /\ (/\ last.op = "to_json"
        /\ \E r \in RootPositions : PackageIs(nodes[r], Chars("libz-sys"))
        /\ \E i \in 1..Len(nodes) : SerdeOnLibz(nodes[i])) =>
          /\ ~last.ret.overflow
          /\ StaleDepAttributed(last.ret.text.array)

\* What holds of the code for C24: the parse, the cascade, the shared
\* dedup key and the exclusive shapes always, the attribution in every
\* JSON report that is printed.
StaleDepAttributedWhenReported ==
    /\ StaleDepParsedAndDeduplicated
    /\ (last.op = "to_json" /\ ~last.ret.overflow /\ RootPositions # {}) =>
          StaleDepAttributed(last.ret.text.array)

\* The JSON report died while a root cause of libz-sys and the
\* StaleDepFingerprint node of serde were stored.
StaleDepReportCrashed ==
    /\ last.op = "to_json"
    /\ last.ret.overflow
    /\ \E r \in RootPositions, i \in 1..Len(nodes) :
          /\ PackageIs(nodes[r], Chars("libz-sys"))
          /\ SerdeOnLibz(nodes[i])
          /\ nodes[i].reason.old_fingerprint = <<>>

\* The JSON report attributed the StaleDepFingerprint node to libz-sys.
StaleDepReported ==
    /\ last.op = "to_json"
    /\ ~last.ret.overflow
    /\ \E r \in RootPositions, i \in 1..Len(nodes) :
          /\ PackageIs(nodes[r], Chars("libz-sys"))
          /\ SerdeOnLibz(nodes[i])
          /\ nodes[i].reason.old_fingerprint = <<>>
          /\ Occurs(nodes[i], ChainOf(last.ret.text.array, r).affected_packages)

\* ========================================================= causal chains
\* (src/src/analysis/graph.rs)

\* The most nodes added before causal_chain is read.
MaxAnalysisNodes == 3

\* reason_dedup_key
reason_dedup_key(reason) ==
    CASE reason.kind = "EnvVarChanged" -> Chars("env:") \o reason.name
      [] reason.kind = "FileChanged" -> Chars("file:") \o reason.path
      [] reason.kind = "UnitDependencyInfoChanged" -> Chars("dep:") \o reason.name
      [] reason.kind = "TargetConfigurationChanged" -> Chars("config")
      [] reason.kind = "ProfileConfigurationChanged" -> Chars("profile")
      [] reason.kind = "RustflagsChanged" -> Chars("rustflags")
      [] reason.kind = "FeaturesChanged" -> Chars("features")
      [] reason.kind = "Unknown" -> Chars("unknown:") \o reason.msg

\* analysis::graph add_node that records a new root cause in front of the
\* earlier ones of its package.
analysis_add_node_newest_first(node) ==
    LET package_name == extract_package_name(node.package.package_id)
        reason_key == reason_dedup_key(node.reason)
        entry_key == <<package_name, reason_key>>
        idx == Len(nodes)
    IN  IF entry_key \in seen_entries
        THEN /\ UNCHANGED graph
             /\ last' = [op |-> "add_node", arg |-> node, ret |-> None]
        ELSE /\ seen_entries' = seen_entries \cup {entry_key}
             /\ package_to_node' = MapInsert(package_to_node, node.package, idx)
             /\ dependency_causes' =
                    IF is_root_cause(node)
                    THEN [x \in DOMAIN dependency_causes \cup {package_name} |->
                            IF x # package_name THEN dependency_causes[x]
                            ELSE IF package_name \in DOMAIN dependency_causes
                            THEN <<idx>> \o dependency_causes[package_name]
                            ELSE <<idx>>]
                    ELSE dependency_causes
             /\ nodes' = Append(nodes, node)
             /\ last' = [op |-> "add_node", arg |-> node, ret |-> Some(idx)]

\* analysis::graph::RebuildGraph::add_node
analysis_add_node(node) ==
    LET package_name == extract_package_name(node.package.package_id)
        reason_key == reason_dedup_key(node.reason)
        entry_key == <<package_name, reason_key>>
        idx == Len(nodes)
    IN  IF entry_key \in seen_entries
        THEN /\ UNCHANGED graph
             /\ last' = [op |-> "add_node", arg |-> node, ret |-> None]
        ELSE /\ seen_entries' = seen_entries \cup {entry_key}
             /\ package_to_node' = MapInsert(package_to_node, node.package, idx)
             /\ dependency_causes' =
                    IF is_root_cause(node)
                    THEN MapPush(dependency_causes, package_name, idx)
                    ELSE dependency_causes
             /\ nodes' = Append(nodes, node)
             /\ last' = [op |-> "add_node", arg |-> node, ret |-> Some(idx)]

RECURSIVE causal_chain(_, _, _)
\* analysis::graph::RebuildGraph::causal_chain, self being the node list ns
\* and the root-cause index causes; node_idx is a Rust index below the
\* node count.
causal_chain(ns, causes, node_idx) ==
    LET node == ns[node_idx + 1] IN
    IF /\ node.reason.kind = "UnitDependencyInfoChanged"
       /\ node.reason.name \in DOMAIN causes
       /\ causes[node.reason.name] # <<>>
    THEN Append(causal_chain(ns, causes, Head(causes[node.reason.name])), node)
    ELSE <<node>>

\* A caller reads causal_chain(node_idx) for a stored node.
CausalChain ==
    /\ \E node_idx \in 0..(Len(nodes) - 1) :
          last' = [op |-> "causal_chain", arg |-> node_idx,
                   ret |-> causal_chain(nodes, dependency_causes, node_idx)]
    /\ UNCHANGED <<graph, driver>>

\* The chain inputs and a cascade that names the package a-b as its root
\* causes spell it.
AnalysisNodes ==
    ChainNodes
    \cup {RebuildNode(PackageTarget(PkgC, None),
                      UnitDependencyInfoChanged(<<"a", "-", "b">>, <<"1">>, <<"2">>))}

\* A caller adds one node.
AddAnalysisNode == /\ Len(nodes) < MaxAnalysisNodes
                   /\ \E node \in AnalysisNodes : analysis_add_node(node)
                   /\ UNCHANGED driver

NextAnalysis == AddAnalysisNode \/ CausalChain

SpecAnalysis == Init /\ [][NextAnalysis]_vars

\* The positions of the stored root causes whose version-stripped package
\* name is exactly name.
RecordedFor(name) ==
    {r \in RootPositions : FirstToken(nodes[r].package.package_id) = name}

\* C25: causal_chain(i) is [r, node i] when node i is a cascade naming D and
\* a root cause was recorded for D, r being the first-inserted root cause
\* recorded for D, and [node i] otherwise; it ends with node i and has at
\* most two nodes (the call returned, so it terminated).
C25_CausalChainFirstInsertedWins ==
    last.op = "causal_chain" =>
        LET node == nodes[last.arg + 1]
            recorded == IF IsCascade(node) THEN RecordedFor(node.reason.name) ELSE {}
        IN  /\ last.ret[Len(last.ret)] = node
            /\ Len(last.ret) <= 2
            /\ recorded # {} =>
                  last.ret = <<nodes[CHOOSE r \in recorded : \A q \in recorded : r <= q],
                               node>>
            /\ recorded = {} => last.ret = <<node>>

\* C25 witness: causal_chain returned two nodes for a cascade whose
\* dependency has two root causes recorded.
C25_Witness ==
    /\ last.op = "causal_chain"
    /\ Len(last.ret) = 2
    /\ Cardinality(RecordedFor(nodes[last.arg + 1].reason.name)) = 2

\* causal_chain returned the cascade alone although a root cause of its
\* dependency's package is stored under the other spelling.
CausalChainMissesOtherSpelling ==
    /\ last.op = "causal_chain"
    /\ Len(last.ret) = 1
    /\ IsCascade(nodes[last.arg + 1])
    /\ \E r \in RootPositions : PackageIs(nodes[r], nodes[last.arg + 1].reason.name)

\* ------------------------------------------------------ insertion order
\* The stored nodes inserted in the order p, a permutation of their
\* positions: their keys are pairwise distinct, so each is stored.
Reordered(p) == [i \in 1..Len(nodes) |-> nodes[p[i]]]

SeqSet(seq) == {seq[k] : k \in 1..Len(seq)}

\* The chains as a set of (root cause, set of affected nodes) pairs.
ChainSet(chains) ==
    {<<chains[c].root_cause, SeqSet(chains[c].affected_packages)>> : c \in 1..Len(chains)}

\* C26: chain membership does not depend on insertion order: the stored
\* nodes inserted in any other order give root_cause_chains() the same
\* outcome, with the same root causes and, for each, the same set of
\* affected nodes.
C26_ChainsIndependentOfOrder ==
    last.op = "root_cause_chains" =>
        \A p \in Permutations(1..Len(nodes)) :
            \E other \in {root_cause_chains(Reordered(p))} :
                /\ other.overflow = last.ret.overflow
                /\ ChainSet(other.chains) = ChainSet(last.ret.chains)

\* What holds of the code for C26: two insertion orders on which
\* root_cause_chains() returns give the same root causes and affected sets.
ReturnedChainsIndependentOfOrder ==
    ChainsReturned =>
        \A p \in Permutations(1..Len(nodes)) :
            \E other \in {root_cause_chains(Reordered(p))} :
                ~other.overflow => ChainSet(other.chains) = ChainSet(last.ret.chains)

\* root_cause_chains() returned chains on nodes that overflow the stack when
\* inserted in another order.
OrderDecidesCrash ==
    /\ ChainsReturned
    /\ Len(nodes) = 3
    /\ \E p \in Permutations(1..Len(nodes)) : root_cause_chains(Reordered(p)).overflow

\* ======================================================= graph queries
\* (src/src/rebuild_graph.rs, src/src/dirty_analyzer.rs)

\* A caller reads is_empty().
IsEmpty ==
    /\ last' = [op |-> "is_empty", arg |-> None, ret |-> is_empty(nodes)]
    /\ UNCHANGED <<graph, driver>>

\* A caller reads to_json().
ToJson ==
    /\ last' = [op |-> "to_json", arg |-> None, ret |-> to_json(nodes)]
    /\ UNCHANGED <<graph, driver>>

\* A caller prints the human-readable report of the graph.
HumanReport ==
    /\ last' = [op |-> "human_report", arg |-> None, ret |-> human_report(nodes)]
    /\ UNCHANGED <<graph, driver>>

NextQuery ==
    AddChainNode \/ RootCauses \/ RootCauseChains \/ IsEmpty \/ ToJson \/ HumanReport

SpecQuery == Init /\ [][NextQuery]_vars

\* The stored cascade at position i reaches no stored root cause.
Unconnected(i) ==
    /\ IsCascade(nodes[i])
    /\ \A r \in RootPositions : ~ReachesRoot(nodes, nodes[i], nodes[r])

\* The graph holds nodes, all of them cascades.
CascadeOnly == nodes # <<>> /\ RootPositions = {}

\* C27: a stored cascade that reaches no stored root cause is in no
\* chain's affected_packages; a graph of cascades only is not empty, its
\* root_causes() and root_cause_chains() are empty, its JSON form is [] and
\* its human-readable report is the no-triggers message.
C27_UnconnectedCascadeInNoChain ==
    /\ ChainsReturned =>
          \A c \in 1..Len(last.ret.chains), i \in 1..Len(nodes) :
              Unconnected(i) => ~Occurs(nodes[i], last.ret.chains[c].affected_packages)
    /\ CascadeOnly =>
          /\ last.op = "is_empty" => last.ret = FALSE
          /\ last.op = "root_causes" => last.ret = <<>>
          /\ last.op = "root_cause_chains" =>
                (~last.ret.overflow /\ last.ret.chains = <<>>)
          /\ last.op = "to_json" =>
                (~last.ret.overflow /\ last.ret.text = Chars("[]"))
          /\ last.op = "human_report" => last.ret = <<NoTriggersLine>>

\* C27 witness: the human-readable report was printed for a graph that
\* holds only cascades, one of them self-dependent.
C27_Witness ==
    /\ CascadeOnly
    /\ last.op = "human_report"
    /\ \E i \in 1..Len(nodes) : PackageIs(nodes[i], nodes[i].reason.name)

\* Chains were returned for a graph that stores a root cause, a cascade of
\* it and a cascade that reaches no root cause (the first half of C27).
UnconnectedCascadeLeftOut ==
    /\ ChainsReturned
    /\ \E c \in 1..Len(last.ret.chains) : last.ret.chains[c].affected_packages # <<>>
    /\ \E i \in 1..Len(nodes) : Unconnected(i)

\* ------------------------------------------------- queries and inserts
QueryOps == {"root_causes", "root_cause_chains", "is_empty"}

\* What the query op returns on the node list ns.
QueryResult(op, ns) ==
    CASE op = "root_causes" -> root_causes(ns)
      [] op = "root_cause_chains" -> root_cause_chains(ns)
      [] op = "is_empty" -> is_empty(ns)

\* seq starts with the sequence prefix.
IsPrefix(prefix, seq) ==
    /\ Len(prefix) <= Len(seq)
    /\ SubSeq(seq, 1, Len(prefix)) = prefix

\* A query leaves the node sequence, both indices and the seen set as they
\* are and its result is determined by the stored nodes; no step changes or
\* removes a stored node.
QueriesReadOnly ==
    /\ last'.op \in QueryOps =>
          /\ UNCHANGED graph
          /\ last'.ret = QueryResult(last'.op, nodes)
    /\ IsPrefix(nodes, nodes')

\* C28: queries are read-only and may be interleaved with inserts:
\* root_causes(), root_cause_chains() and is_empty() leave the graph
\* unchanged, a query repeated on the same graph returns the same result,
\* stored nodes are never changed or removed, and a result returned after a
\* sequence of add_node calls is also obtained when queries are issued
\* between those calls: each of them returns.
C28_QueriesReadOnlyInterleaved ==
    [][/\ QueriesReadOnly
       /\ (last'.op = "root_cause_chains" /\ ~last'.ret.overflow) =>
             \A k \in 0..Len(nodes) : ~root_cause_chains(SubSeq(nodes, 1, k)).overflow]_vars

\* What holds of the code for C28: every query is read-only and
\* determined by the stored nodes, and nodes are only ever appended.
QueriesAreReadOnly == [][QueriesReadOnly]_vars

\* root_cause_chains() returned chains for four nodes of which the first
\* three overflow the stack when queried.
InterleavedQueryCrashes ==
    /\ ChainsReturned
    /\ Len(nodes) = 4
    /\ root_cause_chains(SubSeq(nodes, 1, 3)).overflow

\* ------------------------------------------------- marker and trailing text
\* C29: parse_rebuild_reason uses the first 'dirty:' of the line, skips the
\* whitespace after it and accepts a shape as soon as its rendering is
\* complete: a complete rendering after the first marker gives its reason
\* whatever follows it, and a later 'dirty:' is never consulted, neither
\* after a complete rendering nor after an incomplete one.
C29_FirstMarkerPrefixMatch ==
    ReasonParsed =>
        /\ \A prefix \in {PrefixNone, PrefixPackage}, gap \in MarkerGaps,
              rr \in RenderedReasons, trailing \in TrailingTexts :
                last.arg = TrailingLine(prefix, gap, rr[1], trailing)
                    => last.ret = Some(rr[2])
        /\ \A prefix \in {PrefixNone, PrefixPackage}, incomplete \in IncompleteContents,
              rr \in RenderedReasons :
                last.arg = LaterMarkerLine(prefix, incomplete, rr[1])
                    => last.ret = None

\* C29 witness: 'dirty: TargetConfigurationChangedXYZ' was parsed to
\* TargetConfigurationChanged.
C29_Witness ==
    /\ ReasonParsed
    /\ last.arg = Chars("dirty: TargetConfigurationChangedXYZ")
    /\ last.ret = Some(TargetConfigurationChanged)

\* A line with a second marker was parsed by its first one, to None (the
\* other half of C29).
LaterMarkerIgnored ==
    /\ ReasonParsed
    /\ last.arg = Chars("dirty: ProfileChanged dirty: TargetConfigurationChanged")
    /\ last.ret = None

\* ------------------------------------------------------ index consistency
\* The entries of the root-cause index: (key, place in the key's list).
IndexEntries ==
    {e \in (DOMAIN dependency_causes) \X (1..Len(nodes)) :
        e[2] <= Len(dependency_causes[e[1]])}

\* The indices agree with the node sequence: as many nodes as seen pairs,
\* every recorded index the position of a stored root cause of the key's
\* package name, every root-cause position recorded exactly once.
IndicesConsistent ==
    /\ Len(nodes) = Cardinality(seen_entries)
    /\ \A k \in DOMAIN dependency_causes :
          /\ Len(dependency_causes[k]) <= Len(nodes)
          /\ \A j \in 1..Len(dependency_causes[k]) :
                LET idx == dependency_causes[k][j] IN
                /\ idx \in 0..(Len(nodes) - 1)
                /\ ~IsCascade(nodes[idx + 1])
                /\ FirstToken(nodes[idx + 1].package.package_id) = k
    /\ \A r \in RootPositions :
          Cardinality({e \in IndexEntries : dependency_causes[e[1]][e[2]] = r - 1}) = 1

\* C30: after any sequence of add_node calls the number of stored nodes
\* equals the number of seen (package key, reason key) pairs, an add_node
\* that stores a node returns the node count before the call, the position
\* at which the node is stored, and increases the count by one, and every
\* index recorded under key k in the root-cause index is the position of a
\* stored root cause whose version-stripped package name is k, each
\* root-cause position being recorded exactly once.
C30_IndicesConsistent ==
    [][/\ IndicesConsistent
       /\ IndicesConsistent'
       /\ (last'.op = "add_node" /\ last'.ret # None) =>
             /\ last'.ret = Some(Len(nodes))
             /\ Len(nodes') = Len(nodes) + 1
             /\ nodes'[last'.ret.val + 1] = last'.arg
       /\ (last'.op = "add_node" /\ last'.ret = None) => Len(nodes') = Len(nodes)]_vars

\* C30 witness: a second root cause of one package name was just stored
\* behind a cascade, and both are recorded under the name.
C30_Witness ==
    /\ last.op = "add_node"
    /\ last.ret = Some(2)
    /\ ~IsCascade(last.arg)
    /\ IsCascade(nodes[2])
    /\ \E k \in DOMAIN dependency_causes : dependency_causes[k] = <<0, 2>>

====
